---- MODULE Spec2Model ----
(***************************************************************************)
(* A model of the wasp WebAssembly interpreter: the lowering of structured *)
(* control flow (loader/instructions.rs), the runtime orchestrator         *)
(* (exec/runtime.rs), the operand/control stack (exec/stack.rs) and the    *)
(* two step functions of the repository (exec/runtime.rs:417 and           *)
(* exec/instr.rs:17).                                                      *)
(*                                                                         *)
(* Program counters, Store addresses and indices are 0-based as in the     *)
(* code; TLA+ sequences are 1-based, so element i of a vector v is v[i+1]  *)
(* (operator At).                                                          *)
(***************************************************************************)
EXTENDS Integers, Sequences, FiniteSets, TLC

(***************************************************************************)
(* Bounds of the model.                                                    *)
(***************************************************************************)
\* number of invoke() and start() calls made on one runtime
MaxInvokes == 2
\* largest i32 argument handed to invoke(); arguments range over -1..MaxArg
MaxArg == 3

(***************************************************************************)
(* Vectors with 0-based indices.                                           *)
(***************************************************************************)
At(v, i) == v[i + 1]
InRange(v, i) == i >= 0 /\ i < Len(v)
Take(v, k) == SubSeq(v, 1, k)
LastN(v, k) == SubSeq(v, Len(v) - k + 1, Len(v))
DropLast(v, k) == SubSeq(v, 1, Len(v) - k)
SetAt(v, i, x) == [v EXCEPT ![i + 1] = x]
RECURSIVE Reverse(_)
Reverse(v) == IF v = <<>> THEN <<>> ELSE Append(Reverse(Tail(v)), Head(v))

(***************************************************************************)
(* Values (exec/value.rs).  A value is a tagged scalar.  Floats are kept   *)
(* as their bit pattern (+0.0 is 0); Ref(Null) is v = 0 and Ref(Func(a))   *)
(* is v = a + 1.                                                           *)
(***************************************************************************)
\* The scalar of an I64 is the 64 bits of its two's complement, as four
\* 16-bit limbs (see below); the integers of the model have 32 bits.
I32(x) == [ty |-> "I32", v |-> x]
I64(x) == [ty |-> "I64", v |-> x]
F32(x) == [ty |-> "F32", v |-> x]
F64(x) == [ty |-> "F64", v |-> x]
RefNull == [ty |-> "Ref", v |-> 0]

MinI32 == -2147483647 - 1
MaxI32 == 2147483647

\* i32::wrapping_add, computed without leaving the 32-bit range
wrapping_add(a, b) ==
    IF a > 0 /\ b > MaxI32 - a THEN (a + MinI32) + (b + MinI32)
    ELSE IF a < 0 /\ b < MinI32 - a THEN (a - MinI32) + (b - MinI32)
    ELSE a + b

\* `x as usize` followed by `< len`: a negative i32 becomes a usize above
\* every vector length
UsizeLt(x, len) == x >= 0 /\ x < len
UsizeLe(x, len) == x >= 0 /\ x <= len

(***************************************************************************)
(* Unsigned machine integers wider than 31 bits (u32, u64 and the usize of *)
(* a 64-bit target), as four 16-bit limbs, least significant first.        *)
(***************************************************************************)
Limb == 65536
\* a natural number below 2^31
W(n) == <<n % Limb, n \div Limb, 0, 0>>
\* `v as usize`, `v as u64` of an i32: the sign is extended
SignExtend(v) == <<v % Limb, (v \div Limb) % Limb,
                   IF v < 0 THEN Limb - 1 ELSE 0,
                   IF v < 0 THEN Limb - 1 ELSE 0>>
\* `v as u32` of an i32: the same 32 bits
AsU32(v) == <<v % Limb, (v \div Limb) % Limb, 0, 0>>
\* `w as i32` of a u32
AsI32(w) == IF w[2] >= Limb \div 2 THEN (w[2] - Limb) * Limb + w[1]
            ELSE w[2] * Limb + w[1]
\* the sum of two wide numbers and the carry out of bit 63
WSum(a, b) ==
    LET s1 == a[1] + b[1]
        s2 == a[2] + b[2] + s1 \div Limb
        s3 == a[3] + b[3] + s2 \div Limb
        s4 == a[4] + b[4] + s3 \div Limb
    IN  [v |-> <<s1 % Limb, s2 % Limb, s3 % Limb, s4 % Limb>>,
         carry |-> s4 \div Limb]
\* usize::wrapping_add, the `+` of a build without overflow checks
WAdd(a, b) == WSum(a, b).v
\* usize::checked_add is None
AddOverflows(a, b) == WSum(a, b).carry # 0
\* u32 `+` of a build without overflow checks, and whether it wrapped
U32Add(a, b) == <<WAdd(a, b)[1], WAdd(a, b)[2], 0, 0>>
U32AddOverflows(a, b) == WAdd(a, b)[3] # 0
\* u32 `n * PAGE_SIZE as u32` of a build without overflow checks (the page
\* size is one limb), and whether it wrapped
U32MulPage(n) == <<0, n[1], 0, 0>>
U32MulPageOverflows(n) == n[2] # 0
\* usize `min * PAGE_SIZE` for a page count below 2^32
MulPage(n) == <<0, n[1], n[2], 0>>
\* a - b for b <= a
WSub(a, b) ==
    LET d1 == a[1] - b[1]
        d2 == a[2] - b[2] + d1 \div Limb
        d3 == a[3] - b[3] + d2 \div Limb
        d4 == a[4] - b[4] + d3 \div Limb
    IN  <<d1 % Limb, d2 % Limb, d3 % Limb, d4 % Limb>>
WLt(a, b) ==
    \E k \in 1..4 : a[k] < b[k] /\ \A j \in (k + 1)..4 : a[j] = b[j]
WLe(a, b) == a = b \/ WLt(a, b)
\* the number as an integer of the model, when it is below 2^31
Small(w) == w[3] = 0 /\ w[4] = 0 /\ w[2] < Limb \div 2
ToInt(w) == w[2] * Limb + w[1]

\* i64::MIN and the sign bit of a 64-bit two's complement
MinI64 == <<0, 0, 0, Limb \div 2>>
WNegative(w) == w[4] >= Limb \div 2
\* u64::wrapping_neg and the magnitude of a two's complement number
WNeg(w) == WSub(<<0, 0, 0, 0>>, w)
WAbs(w) == IF WNegative(w) THEN WNeg(w) ELSE w
\* bit k of a wide number
WBit(w, k) == (w[(k \div 16) + 1] \div (2 ^ (k % 16))) % 2
\* The unsigned quotient q and remainder r of a by b # 0 (a = q * b + r,
\* r < b), by restoring division from bit k of a down: s holds the
\* quotient and the remainder of the bits above k, WDivBit brings bit k
\* down into the doubled remainder x (carry: its bit 64).
RECURSIVE WDivLoop(_, _, _, _)
RECURSIVE WDivBit(_, _, _, _, _)
WDivBit(a, b, k, s, x) ==
    IF WSum(s.r, s.r).carry # 0 \/ WLe(b, x)
    THEN WDivLoop(a, b, k - 1,
                  [q |-> WAdd(WAdd(s.q, s.q), W(1)), r |-> WSub(x, b)])
    ELSE WDivLoop(a, b, k - 1, [q |-> WAdd(s.q, s.q), r |-> x])
WDivLoop(a, b, k, s) ==
    IF k < 0 THEN s
    ELSE WDivBit(a, b, k, s, WAdd(WAdd(s.r, s.r), W(WBit(a, k))))
WDivMod(a, b) ==
    WDivLoop(a, b, 63, [q |-> <<0, 0, 0, 0>>, r |-> <<0, 0, 0, 0>>])
\* the signed quotient truncated toward zero and the signed remainder (it
\* has the sign of the dividend) of two's complement numbers, modulo 2^64
WSDiv(a, b) ==
    IF WNegative(a) = WNegative(b) THEN WDivMod(WAbs(a), WAbs(b)).q
    ELSE WNeg(WDivMod(WAbs(a), WAbs(b)).q)
WSRem(a, b) ==
    IF WNegative(a) THEN WNeg(WDivMod(WAbs(a), WAbs(b)).r)
    ELSE WDivMod(WAbs(a), WAbs(b)).r
\* an i32 or i64 value as a 64-bit number, signed and unsigned, and the
\* value of type ty with the low bits of w
SWord(x) == IF x.ty = "I32" THEN SignExtend(x.v) ELSE x.v
UWord(x) == IF x.ty = "I32" THEN AsU32(x.v) ELSE x.v
OfWord(ty, w) == IF ty = "I32" THEN I32(AsI32(w)) ELSE I64(w)
MinOf(ty) == IF ty = "I32" THEN SignExtend(MinI32) ELSE MinI64

(***************************************************************************)
(* Instructions (binary/instr.rs).  A function body is given in structured *)
(* form, as the nesting of the binary's block/loop/if ... end bytes; the   *)
(* constructors below build the plain instructions and the nested ones.    *)
(***************************************************************************)
BtEmpty == [k |-> "Empty", idx |-> 0]
BtVal == [k |-> "ValType", idx |-> 0]
BtType(i) == [k |-> "TypeIdx", idx |-> i]

Ins(o) == [op |-> o, a |-> 0]
Ins1(o, x) == [op |-> o, a |-> x]
I32Const(x) == Ins1("I32Const", x)
Br(l) == Ins1("Br", l)
BrIf(l) == Ins1("BrIf", l)
BrTable(ix, d) == [op |-> "BrTable", indexs |-> ix, default |-> d]
Call(x) == Ins1("Call", x)
TableInit(x, y) == [op |-> "TableInit", x |-> x, y |-> y]
TableCopy(x, y) == [op |-> "TableCopy", x |-> x, y |-> y]
CallIndirect(typeidx, tableidx) ==
    [op |-> "CallIndirect", typeidx |-> typeidx, tableidx |-> tableidx]
LocalGet(l) == Ins1("LocalGet", l)
LocalSet(l) == Ins1("LocalSet", l)
GlobalGet(i) == Ins1("GlobalGet", i)
GlobalSet(i) == Ins1("GlobalSet", i)
SBlock(bt, body) == [op |-> "Block", bt |-> bt, body |-> body]
SLoop(bt, body) == [op |-> "Loop", bt |-> bt, body |-> body]
SIf(bt, then) == [op |-> "If", bt |-> bt, then |-> then, else |-> <<>>,
                  has_else |-> FALSE]
SIfElse(bt, then, else) == [op |-> "If", bt |-> bt, then |-> then,
                            else |-> else, has_else |-> TRUE]

(***************************************************************************)
(* Instruction lowering: Parser::instr and Parser::expr flatten the nested *)
(* instructions into one linear vector with relative offsets.              *)
(***************************************************************************)
RECURSIVE expr(_)
instr(i) ==
    CASE i.op = "Block" ->
           LET inner == expr(i.body)
           IN  <<[op |-> "Block", bt |-> i.bt, end_offset |-> Len(inner) + 1]>>
               \o inner
      [] i.op = "Loop" ->
           <<[op |-> "Loop", bt |-> i.bt]>> \o expr(i.body)
      [] i.op = "If" /\ i.has_else ->
           LET else_instrs == expr(i.else)
               then_instrs == Append(expr(i.then),
                                     Ins1("RJump", Len(else_instrs) + 1))
           IN  <<[op |-> "If", bt |-> i.bt,
                  else_offset |-> Len(then_instrs) + 1,
                  end_offset |-> Len(then_instrs) + Len(else_instrs) + 1]>>
               \o then_instrs \o else_instrs
      [] i.op = "If" /\ ~i.has_else ->
           LET then_instrs == expr(i.then)
           IN  <<[op |-> "If", bt |-> i.bt, else_offset |-> -1,
                  end_offset |-> Len(then_instrs) + 1]>>
               \o then_instrs
      [] OTHER -> <<i>>

expr(body) ==
    IF body = <<>> THEN <<>> ELSE instr(Head(body)) \o expr(Tail(body))

(***************************************************************************)
(* The number of blocks, loops and ifs that enclose each lowered           *)
(* instruction of a body: the labels a validated function has open when it *)
(* executes that instruction.  The vector is aligned with expr(body).      *)
(***************************************************************************)
RECURSIVE NestingOf(_, _)
NestingOfInstr(i, d) ==
    CASE i.op \in {"Block", "Loop"} -> <<d>> \o NestingOf(i.body, d + 1)
      [] i.op = "If" /\ i.has_else ->
           <<d>> \o NestingOf(i.then, d + 1) \o <<d + 1>>
                 \o NestingOf(i.else, d + 1)
      [] i.op = "If" /\ ~i.has_else -> <<d>> \o NestingOf(i.then, d + 1)
      [] OTHER -> <<d>>

NestingOf(body, d) ==
    IF body = <<>> THEN <<>>
    ELSE NestingOfInstr(Head(body), d) \o NestingOf(Tail(body), d)

(***************************************************************************)
(* The parser of the binary format (loader/parser.rs, instructions.rs): a  *)
(* Parser is the byte vector and a cursor into it.  A parse returns "ok"   *)
(* with the value read, "err" (Err(Error)) or "panic", and the cursor it   *)
(* left; nothing moves the cursor back.  Bytes are numbers below 128, so   *)
(* that every LEB128 number read is one byte long, and of the opcodes only *)
(* those of the control instructions and of nop are drawn.                 *)
(***************************************************************************)
ParserNew(bytes) == [bytes |-> bytes, cursor |-> 0]
ParseOk(v, c) == [kind |-> "ok", v |-> v, cursor |-> c]
ParseErr(c) == [kind |-> "err", v |-> <<>>, cursor |-> c]
ParsePanic(c) == [kind |-> "panic", v |-> <<>>, cursor |-> c]
NotParsed == [kind |-> "none", v |-> <<>>, cursor |-> 0]

\* Parser::peek
peek(bytes, c) == IF c < Len(bytes) THEN bytes[c + 1] ELSE -1

\* Parser::blocktype: 0x40, a value type, or a type index read as s32
blocktype(bytes, c) ==
    CASE peek(bytes, c) < 0 -> ParseErr(c)
      [] peek(bytes, c) = 64 -> ParseOk(BtEmpty, c + 1)
      [] peek(bytes, c) \in {111, 112, 124, 125, 126, 127} ->
           ParseOk(BtVal, c + 1)
      [] OTHER -> ParseOk(BtType(peek(bytes, c)), c + 1)

\* Parser::or(a, b): b runs when a returned an error, from the cursor a left
Parser_or(a, b) == IF a.kind = "err" THEN b ELSE a

\* the If instruction and the instructions that follow it, as the two
\* alternatives of Parser::instr build them (instructions.rs:83-91, 102-108)
if_else_instrs(bt, then_instrs, else_instrs) ==
    LET then_rjump == Append(then_instrs,
                             Ins1("RJump", Len(else_instrs) + 1))
    IN  <<[op |-> "If", bt |-> bt, else_offset |-> Len(then_rjump) + 1,
           end_offset |-> Len(then_rjump) + Len(else_instrs) + 1]>>
        \o then_rjump \o else_instrs

if_instrs(bt, then_instrs) ==
    <<[op |-> "If", bt |-> bt, else_offset |-> -1,
       end_offset |-> Len(then_instrs) + 1]>> \o then_instrs

RECURSIVE Parser_instr(_, _)
RECURSIVE take_while0(_, _, _)
\* take_while0: the vector read, v followed by what the rest of the loop
\* read
take_rest(v, rest) ==
    IF rest.kind # "ok" THEN rest ELSE ParseOk(v \o rest.v, rest.cursor)

\* take_while0: the rest of the loop after f(self) returned r
take_more(bytes, r, cond) ==
    IF r.kind # "ok" THEN r
    ELSE take_rest(r.v, take_while0(bytes, r.cursor, cond))

\* Parser::take_while0(Self::instr, |b| b == cond), flattened: instructions
\* are read until the next byte is cond, which is consumed
take_while0(bytes, c, cond) ==
    CASE peek(bytes, c) < 0 -> ParseErr(c)
      [] peek(bytes, c) = cond -> ParseOk(<<>>, c + 1)
      [] OTHER -> take_more(bytes, Parser_instr(bytes, c), cond)

\* Parser::instr, 0x02 and 0x03 after the block type bt
block_instrs(op, bt, inner) ==
    IF inner.kind # "ok" THEN inner
    ELSE IF op = 2
    THEN ParseOk(<<[op |-> "Block", bt |-> bt.v,
                    end_offset |-> Len(inner.v) + 1]>> \o inner.v,
                 inner.cursor)
    ELSE ParseOk(<<[op |-> "Loop", bt |-> bt.v]>> \o inner.v, inner.cursor)

\* Parser::instr, 0x04, first alternative: then-branch up to 0x05,
\* else-branch up to 0x0B
if_with_else(bytes, bt) ==
    IF bt.kind # "ok" THEN bt
    ELSE LET then_instrs == take_while0(bytes, bt.cursor, 5)
         IN  IF then_instrs.kind # "ok" THEN then_instrs
             ELSE LET else_instrs ==
                          take_while0(bytes, then_instrs.cursor, 11)
                  IN  IF else_instrs.kind # "ok" THEN else_instrs
                      ELSE ParseOk(if_else_instrs(bt.v, then_instrs.v,
                                                  else_instrs.v),
                                   else_instrs.cursor)

\* Parser::instr, 0x04, second alternative: then-branch up to 0x0B
if_without_else(bytes, bt) ==
    IF bt.kind # "ok" THEN bt
    ELSE LET then_instrs == take_while0(bytes, bt.cursor, 11)
         IN  IF then_instrs.kind # "ok" THEN then_instrs
             ELSE ParseOk(if_instrs(bt.v, then_instrs.v),
                          then_instrs.cursor)

\* Parser::instr: the byte at the cursor is consumed; 0x05, 0x0B and the
\* end of the input reach the arm `v => panic!("not implemented")`
Parser_instr(bytes, c) ==
    CASE peek(bytes, c) = 0 -> ParseOk(<<Ins("Unreachable")>>, c + 1)
      [] peek(bytes, c) = 1 -> ParseOk(<<Ins("Nop")>>, c + 1)
      [] peek(bytes, c) \in {2, 3} ->
           LET bt == blocktype(bytes, c + 1)
           IN  IF bt.kind # "ok" THEN bt
               ELSE block_instrs(peek(bytes, c), bt,
                                 take_while0(bytes, bt.cursor, 11))
      [] peek(bytes, c) = 4 ->
           LET a == if_with_else(bytes, blocktype(bytes, c + 1))
           IN  Parser_or(a, if_without_else(bytes,
                                            blocktype(bytes, a.cursor)))
      [] peek(bytes, c) = 15 -> ParseOk(<<Ins("Return")>>, c + 1)
      [] OTHER -> ParsePanic(c + 1)

\* Parser::expr
Parser_expr(bytes, c) == take_while0(bytes, c, 11)

(***************************************************************************)
(* Store (exec/runtime.rs:98-138, exec/store.rs).                          *)
(***************************************************************************)
PAGE_SIZE == 65536

InnerFunc(ia, st, ft, ls) ==
    [kind |-> "InnerFunc", instance_addr |-> ia, start |-> st,
     functype |-> ft, locals |-> ls, name |-> ""]
HostFunc(ft, nm) ==
    [kind |-> "HostFunc", instance_addr |-> 0, start |-> 0,
     functype |-> ft, locals |-> <<>>, name |-> nm]

(***************************************************************************)
(* OptVec (exec/opt_vec.rs): inner, a vector of optional entries            *)
(* [some, v], and free, the stack of the indices of the empty ones.         *)
(***************************************************************************)
OptVecNew == [inner |-> <<>>, free |-> <<>>]
Some(v) == [some |-> TRUE, v |-> v]
\* OptVec::push taking the index freed first
OptVec_push_oldest(ov, value) ==
    IF ov.free # <<>>
    THEN [ov |-> [inner |-> SetAt(ov.inner, ov.free[1], Some(value)),
                  free |-> Tail(ov.free)],
          addr |-> ov.free[1]]
    ELSE [ov |-> [ov EXCEPT !.inner = Append(@, Some(value))],
          addr |-> Len(ov.inner)]
\* OptVec::push (the index popped from free is within inner, or the
\* assignment to inner[i] panics)
OptVec_push(ov, value) ==
    IF ov.free # <<>>
    THEN [ov |-> [inner |-> SetAt(ov.inner, ov.free[Len(ov.free)],
                                  Some(value)),
                  free |-> DropLast(ov.free, 1)],
          addr |-> ov.free[Len(ov.free)]]
    ELSE [ov |-> [ov EXCEPT !.inner = Append(@, Some(value))],
          addr |-> Len(ov.inner)]
\* OptVec::remove of an index within inner, without the is_some test
OptVec_remove_always(ov, i) ==
    [inner |-> SetAt(ov.inner, i, [At(ov.inner, i) EXCEPT !.some = FALSE]),
     free |-> Append(ov.free, i)]
\* OptVec::remove of an index within inner (an index beyond it panics)
OptVec_remove(ov, i) ==
    IF At(ov.inner, i).some
    THEN [inner |-> SetAt(ov.inner, i,
                          [At(ov.inner, i) EXCEPT !.some = FALSE]),
          free |-> Append(ov.free, i)]
    ELSE ov
\* Index for OptVec: the unwrap of an empty entry panics
OptVec_has(ov, i) == InRange(ov.inner, i) /\ At(ov.inner, i).some
\* OptVec::pop: the last entry of inner is taken off, free is not touched
OptVec_pop(ov) == [ov EXCEPT !.inner = DropLast(@, 1)]
\* Option<T>::None
None == [some |-> FALSE, v |-> 0]
\* the Option<T> that OptVec::remove(i) and, for the last entry,
\* OptVec::pop return
Taken(ov, i) ==
    IF OptVec_has(ov, i) THEN Some(At(ov.inner, i).v) ELSE None

\* the OptVec whose entries are all present and hold the elements of v
OptVecOf(v) == [inner |-> [k \in DOMAIN v |-> Some(v[k])], free |-> <<>>]
\* OptVec::remove of every address of addrs from the k-th on, in order
RECURSIVE remove_loop(_, _, _)
remove_loop(ov, addrs, k) ==
    IF k > Len(addrs) THEN ov
    ELSE remove_loop(OptVec_remove(ov, addrs[k]), addrs, k + 1)

\* Store::new
StoreNew == [funcs |-> <<>>, globals |-> <<>>, mems |-> <<>>,
             tables |-> <<>>, elems |-> <<>>, datas |-> OptVecNew]

\* eval_const: the value of a constant initializer expression
eval_const(e) ==
    IF Head(e).op \in {"I32Const", "I64Const", "F32Const", "F64Const"}
    THEN [ok |-> TRUE,
          value |-> [ty |-> CASE Head(e).op = "I32Const" -> "I32"
                              [] Head(e).op = "I64Const" -> "I64"
                              [] Head(e).op = "F32Const" -> "F32"
                              [] OTHER -> "F64",
                     v |-> Head(e).a]]
    ELSE [ok |-> FALSE, value |-> I32(0)]

\* Store::allocate_env_func
allocate_env_func(store, functype, name) ==
    [store |-> [store EXCEPT !.funcs = Append(@, HostFunc(functype, name))],
     addr |-> Len(store.funcs)]

\* Store::allocate_global
allocate_global(store, global) ==
    LET c == eval_const(global.value)
    IN  [ok |-> c.ok,
         store |-> [store EXCEPT !.globals =
                       Append(@, [globaltype |-> global.type_,
                                  value |-> c.value])],
         addr |-> Len(store.globals)]

\* Store::allocate_mem.  The bytes of a memory are kept as their number
\* (len) and the map (nz) from the addresses of the non-zero bytes to them.
allocate_mem(store, mem) ==
    [store |-> [store EXCEPT !.mems =
                   Append(@, [limits |-> mem,
                              data |-> [len |-> MulPage(W(mem.min)),
                                        nz |-> <<>>]])],
     addr |-> Len(store.mems)]

\* one byte of the data of a memory: read, and written
ReadByte(data, a) == IF a \in DOMAIN data.nz THEN data.nz[a] ELSE 0
WriteByte(data, a, b) ==
    [data EXCEPT !.nz =
        IF b = 0 THEN [x \in (DOMAIN data.nz) \ {a} |-> data.nz[x]]
        ELSE [x \in (DOMAIN data.nz) \cup {a} |->
                 IF x = a THEN b ELSE data.nz[x]]]

\* memory::data_passiv
data_passiv(datas, data) == OptVec_push(datas, [data |-> data.init])

\* memory::data_active: the bytes of the segment are written from offset
\* on; a byte beyond the memory panics (ok = FALSE)
RECURSIVE data_active(_, _, _, _)
data_active(mem, data, offset, i) ==
    IF i >= Len(data.init) THEN [ok |-> TRUE, mem |-> mem]
    ELSE IF ~WLt(WAdd(offset, W(i)), mem.data.len)
    THEN [ok |-> FALSE, mem |-> mem]
    ELSE data_active([mem EXCEPT !.data =
                         WriteByte(@, WAdd(offset, W(i)), data.init[i + 1])],
                     data, offset, i + 1)

\* Store::allocate_data (store.rs:142-154): Some(address) for a passive
\* segment, None (addr = -1) for an active one
allocate_data(store, data) ==
    IF data.mode.k = "Passive"
    THEN [err |-> "",
          store |-> [store EXCEPT !.datas =
                        data_passiv(store.datas, data).ov],
          addr |-> data_passiv(store.datas, data).addr]
    ELSE IF ~eval_const(data.mode.offset).ok
    THEN [err |-> "ConstantExpression", store |-> store, addr |-> -1]
    ELSE IF ~InRange(store.mems, data.mode.memory)
    THEN [err |-> "panic", store |-> store, addr |-> -1]
    ELSE
    LET r == data_active(At(store.mems, data.mode.memory), data,
                         SignExtend(eval_const(data.mode.offset).value.v),
                         0)
    IN  [err |-> IF r.ok THEN "" ELSE "panic",
         store |-> [store EXCEPT !.mems[data.mode.memory + 1] = r.mem],
         addr |-> -1]

\* Limits (binary/types.rs:59-62) as [min, max]; Limits::Min(n) has max = -1
Limits_min(limits) == limits.min
Limits_set_min(limits, n) == [limits EXCEPT !.min = n]
Limits_valid(limits) == limits.max < 0 \/ limits.min <= limits.max

\* Ref::Func(a)
RefFunc(a) == [ty |-> "Ref", v |-> a + 1]

\* Store::allocate_table
allocate_table(store, table) ==
    [store |-> [store EXCEPT !.tables =
                   Append(@, [tabletype |-> table,
                              elem |-> [k \in 1..Limits_min(table.limits)
                                           |-> RefNull]])],
     addr |-> Len(store.tables)]

\* table::table_init_manual: an index beyond the table panics
table_init_manual(tab, offset, refs) ==
    [ok |-> offset >= 0 /\ offset + Len(refs) <= Len(tab.elem),
     tab |-> [tab EXCEPT !.elem =
                 [k \in DOMAIN tab.elem |->
                     IF k - 1 >= offset /\ k - 1 < offset + Len(refs)
                     THEN refs[k - offset] ELSE tab.elem[k]]]]

\* table::elem_active: every initializer is evaluated by eval_const and a
\* numeric value becomes Ref::Func of that address
elem_active(tab, offset, elem) ==
    IF \E k \in DOMAIN elem.init : ~eval_const(elem.init[k]).ok
    THEN [ok |-> FALSE, tab |-> tab]
    ELSE table_init_manual(tab, offset,
             [k \in DOMAIN elem.init |->
                 LET value == eval_const(elem.init[k]).value
                 IN  IF value.ty = "Ref" THEN value ELSE RefFunc(value.v)])

\* table::elem_passiv: the references become an ElemInst pushed on the
\* elems of the Store
elem_passiv(elems, elem) ==
    IF \E k \in DOMAIN elem.init : ~eval_const(elem.init[k]).ok
    THEN [ok |-> FALSE, elems |-> elems]
    ELSE [ok |-> TRUE,
          elems |-> Append(elems,
             [reftype |-> elem.type_,
              elem |-> [k \in DOMAIN elem.init |->
                 LET value == eval_const(elem.init[k]).value
                 IN  IF value.ty = "Ref" THEN value
                     ELSE RefFunc(value.v)]])]

\* Store::allocate_elem (store.rs:119-132): Some(address) for a passive
\* segment, None (addr = -1) for an active one
allocate_elem(store, elem) ==
    IF elem.mode.k = "Passiv"
    THEN [ok |-> elem_passiv(store.elems, elem).ok,
          store |-> [store EXCEPT !.elems =
                        elem_passiv(store.elems, elem).elems],
          addr |-> Len(store.elems)]
    ELSE
    LET offset == eval_const(elem.mode.offset)
        r == elem_active(At(store.tables, elem.mode.tableidx),
                         offset.value.v, elem)
    IN  IF ~offset.ok \/ ~InRange(store.tables, elem.mode.tableidx)
        THEN [ok |-> FALSE, store |-> store, addr |-> -1]
        ELSE [ok |-> r.ok,
              store |-> [store EXCEPT !.tables[elem.mode.tableidx + 1] =
                            r.tab],
              addr |-> -1]

\* update_func_inst writing the address of the first instance
update_func_inst_first(store, funcaddrs, instance_addr) ==
    [store EXCEPT !.funcs =
        [a \in DOMAIN store.funcs |->
            IF (\E k \in DOMAIN funcaddrs : funcaddrs[k] = a - 1)
               /\ store.funcs[a].kind = "InnerFunc"
            THEN [store.funcs[a] EXCEPT !.instance_addr = 0]
            ELSE store.funcs[a]]]
\* Store::update_func_inst
update_func_inst(store, funcaddrs, instance_addr) ==
    [store EXCEPT !.funcs =
        [a \in DOMAIN store.funcs |->
            IF (\E k \in DOMAIN funcaddrs : funcaddrs[k] = a - 1)
               /\ store.funcs[a].kind = "InnerFunc"
            THEN [store.funcs[a] EXCEPT !.instance_addr = instance_addr]
            ELSE store.funcs[a]]]

\* The slot vectors of a Store.  Before free_runtime only data_drop removes
\* an entry, so funcs, globals, tables, mems and elems are kept as the
\* vectors of their entries and every slot of them is present.
StoreSlots(store) ==
    [funcs |-> OptVecOf(store.funcs), globals |-> OptVecOf(store.globals),
     tables |-> OptVecOf(store.tables), mems |-> OptVecOf(store.mems),
     elems |-> OptVecOf(store.elems), datas |-> store.datas]

\* Store::free_runtime, the body of the loop over the instances
\* (store.rs:158-175)
free_instance(slots, inst) ==
    [funcs |-> remove_loop(slots.funcs, inst.funcaddrs, 1),
     datas |-> remove_loop(slots.datas, inst.dataaddrs, 1),
     elems |-> remove_loop(slots.elems, inst.elemaddrs, 1),
     globals |-> remove_loop(slots.globals, inst.globaladdrs, 1),
     tables |-> remove_loop(slots.tables, inst.tableaddrs, 1),
     mems |-> IF inst.memaddr >= 0
              THEN OptVec_remove(slots.mems, inst.memaddr)
              ELSE slots.mems]

\* Store::free_runtime (store.rs:156-177) from the k-th instance on
RECURSIVE free_runtime(_, _, _)
free_runtime(slots, insts, k) ==
    IF k > Len(insts) THEN slots
    ELSE free_runtime(free_instance(slots, insts[k]), insts, k + 1)

(***************************************************************************)
(* Runtime construction (exec/runtime.rs:200-313).  rt is the Runtime      *)
(* under construction: env_name, importer, instrs, instances, store.  The  *)
(* importer is a map from module names to parsed modules.                  *)
(***************************************************************************)
Failed(rt, e) == [ok |-> FALSE, err |-> e, rt |-> rt, addr |-> 0,
                  addrs |-> <<>>, instance |-> <<>>]

\* Runtime::allocate_func
allocate_func(rt, functype, locals, body, instance_addr) ==
    [rt |-> [rt EXCEPT
               !.instrs = (@ \o body) \o <<Ins("Return")>>,
               !.store.funcs = Append(@, InnerFunc(instance_addr,
                                                   Len(rt.instrs),
                                                   functype, locals))],
     addr |-> Len(rt.store.funcs)]

\* the first export of the given name, 0 when there is none
FindExport(exports, name) ==
    IF \E k \in DOMAIN exports : exports[k].name = name
    THEN CHOOSE k \in DOMAIN exports :
            /\ exports[k].name = name
            /\ \A j \in DOMAIN exports : exports[j].name = name => k <= j
    ELSE 0

RECURSIVE new_instance(_, _)

\* Runtime::get_func_addr
get_func_addr(rt, modname, funcname) ==
    IF modname \notin DOMAIN rt.importer
    THEN Failed(rt, "ModuleNotFound")
    ELSE LET r == new_instance(rt, rt.importer[modname])
         IN  IF ~r.ok THEN r
             ELSE LET k == FindExport(r.instance.exports, funcname)
                  IN  IF k = 0 THEN Failed(r.rt, "FunctionNotFound")
                      ELSE IF r.instance.exports[k].desc.k # "Func"
                      THEN Failed(r.rt, "NotFunction")
                      ELSE [ok |-> TRUE, err |-> "",
                            rt |-> [r.rt EXCEPT !.instances =
                                       Append(@, r.instance)],
                            addr |-> At(r.instance.funcaddrs,
                                        r.instance.exports[k].desc.idx),
                            addrs |-> <<>>, instance |-> <<>>]

\* new_instance, the loop over module.imports (runtime.rs:249-263)
RECURSIVE import_loop(_, _, _, _)
import_loop(rt, module, k, funcaddrs) ==
    IF k > Len(module.imports)
    THEN [ok |-> TRUE, err |-> "", rt |-> rt, addr |-> 0,
          addrs |-> funcaddrs, instance |-> <<>>]
    ELSE LET import == module.imports[k]
         IN  IF import.desc.k # "TypeIdx"
             THEN import_loop(rt, module, k + 1, funcaddrs)
             ELSE IF import.module = rt.env_name
             THEN LET r == allocate_env_func(rt.store,
                              At(module.types, import.desc.idx), import.name)
                  IN  import_loop([rt EXCEPT !.store = r.store], module,
                                  k + 1, Append(funcaddrs, r.addr))
             ELSE LET r == get_func_addr(rt, import.module, import.name)
                  IN  IF ~r.ok THEN r
                      ELSE import_loop(r.rt, module, k + 1,
                                       Append(funcaddrs, r.addr))

\* new_instance, the loop over module.globals (runtime.rs:265-268)
RECURSIVE global_loop(_, _, _, _)
global_loop(rt, module, k, globaladdrs) ==
    IF k > Len(module.globals)
    THEN [ok |-> TRUE, err |-> "", rt |-> rt, addr |-> 0,
          addrs |-> globaladdrs, instance |-> <<>>]
    ELSE LET r == allocate_global(rt.store, module.globals[k])
         IN  IF ~r.ok THEN Failed(rt, "ConstantExpression")
             ELSE global_loop([rt EXCEPT !.store = r.store], module, k + 1,
                              Append(globaladdrs, r.addr))

\* new_instance, the loop over module.funcs (runtime.rs:270-276)
RECURSIVE func_loop(_, _, _, _)
func_loop(rt, module, k, inner_funcaddr) ==
    IF k > Len(module.funcs)
    THEN [ok |-> TRUE, err |-> "", rt |-> rt, addr |-> 0,
          addrs |-> inner_funcaddr, instance |-> <<>>]
    ELSE LET func == module.funcs[k]
             r == allocate_func(rt, At(module.types, func.typeidx),
                                func.locals, func.body, Len(rt.instances))
         IN  func_loop(r.rt, module, k + 1, Append(inner_funcaddr, r.addr))

\* The memory of an instance: at most one, index 0, allocated by
\* Store::allocate_mem and recorded as the instance's memaddr (-1: None).
instance_mem(rt, module) ==
    IF module.mems = <<>> THEN [store |-> rt.store, addr |-> -1]
    ELSE allocate_mem(rt.store, module.mems[1])

\* The data segments of an instance: every one is handed to
\* Store::allocate_data and the address of every passive one is recorded
\* in the instance's dataaddrs.
RECURSIVE data_loop(_, _, _, _)
data_loop(store, module, k, dataaddrs) ==
    IF k > Len(module.datas)
    THEN [err |-> "", store |-> store, addrs |-> dataaddrs]
    ELSE LET r == allocate_data(store, module.datas[k])
         IN  IF r.err # ""
             THEN [err |-> r.err, store |-> store, addrs |-> dataaddrs]
             ELSE data_loop(r.store, module, k + 1,
                            IF r.addr < 0 THEN dataaddrs
                            ELSE Append(dataaddrs, r.addr))

instance_datas(m, module) ==
    [err |-> data_loop(m.store, module, 1, <<>>).err,
     store |-> data_loop(m.store, module, 1, <<>>).store,
     addr |-> m.addr,
     dataaddrs |-> data_loop(m.store, module, 1, <<>>).addrs]

\* The tables of an instance: every table of the module is allocated by
\* Store::allocate_table and recorded in the instance's tableaddrs, then
\* every element segment is handed to Store::allocate_elem and the address
\* of every passive one is recorded in the instance's elemaddrs.
RECURSIVE table_loop(_, _, _, _)
table_loop(store, module, k, tableaddrs) ==
    IF k > Len(module.tables) THEN [store |-> store, addrs |-> tableaddrs]
    ELSE LET r == allocate_table(store, module.tables[k])
         IN  table_loop(r.store, module, k + 1, Append(tableaddrs, r.addr))

RECURSIVE elem_loop(_, _, _, _)
elem_loop(store, module, k, elemaddrs) ==
    IF k > Len(module.elems)
    THEN [ok |-> TRUE, store |-> store, addrs |-> elemaddrs]
    ELSE LET r == allocate_elem(store, module.elems[k])
         IN  IF ~r.ok
             THEN [ok |-> FALSE, store |-> store, addrs |-> elemaddrs]
             ELSE elem_loop(r.store, module, k + 1,
                            IF r.addr < 0 THEN elemaddrs
                            ELSE Append(elemaddrs, r.addr))

instance_elems(t, module) ==
    [ok |-> elem_loop(t.store, module, 1, <<>>).ok,
     store |-> elem_loop(t.store, module, 1, <<>>).store,
     addrs |-> t.addrs,
     elemaddrs |-> elem_loop(t.store, module, 1, <<>>).addrs]

instance_tables(rt, module) ==
    instance_elems(table_loop(rt.store, module, 1, <<>>), module)

\* Runtime::new_instance, the Instance value built at its end
\* (runtime.rs:281-287) from the results i, g, f of the three loops, the
\* memory m and the tables t
instance_value(module, i, g, f, m, t) ==
    IF m.err # "" THEN Failed(f.rt, m.err)
    ELSE IF ~t.ok THEN Failed(f.rt, "ConstantExpression")
    ELSE [ok |-> TRUE, err |-> "",
          rt |-> [f.rt EXCEPT !.store = t.store],
          addr |-> 0, addrs |-> <<>>,
          instance |-> [funcaddrs |-> i.addrs \o f.addrs,
                        globaladdrs |-> g.addrs,
                        memaddr |-> m.addr,
                        tableaddrs |-> t.addrs,
                        elemaddrs |-> t.elemaddrs,
                        dataaddrs |-> m.dataaddrs,
                        types |-> module.types,
                        start |-> module.start,
                        exports |-> module.exports]]

\* Runtime::new_instance after the memory m was allocated: the tables
instance_with_mem(module, i, g, f, m) ==
    instance_value(module, i, g, f, m,
        instance_tables([f.rt EXCEPT !.store = m.store], module))

\* Runtime::new_instance after update_func_inst returned the store st
instance_with_funcs(module, i, g, f, st) ==
    instance_with_mem(module, i, g, f,
        instance_datas(instance_mem([f.rt EXCEPT !.store = st], module),
                       module))

\* Runtime::new_instance after the loop over module.funcs: the functions
\* of the instance get its address, then memory and tables are allocated
instance_stores(module, i, g, f) ==
    instance_with_funcs(module, i, g, f,
        update_func_inst(f.rt.store, f.addrs, Len(f.rt.instances)))

\* Runtime::new_instance after the loop over module.globals
instance_funcs(module, i, g) ==
    IF ~g.ok THEN g
    ELSE instance_stores(module, i, g, func_loop(g.rt, module, 1, <<>>))

\* Runtime::new_instance after the loop over module.imports
instance_globals(module, i) ==
    IF ~i.ok THEN i
    ELSE instance_funcs(module, i, global_loop(i.rt, module, 1, <<>>))

\* Runtime::new_instance
new_instance(rt, module) ==
    instance_globals(module, import_loop(rt, module, 1, <<>>))

\* Runtime::new, the push of the root instance (runtime.rs:237-241)
push_instance(r) ==
    IF ~r.ok THEN r
    ELSE [r EXCEPT !.rt.instances = Append(@, r.instance),
                   !.addr = Len(r.rt.instances)]

\* Runtime::new
RuntimeNew(importer, env_name, module) ==
    push_instance(new_instance([env_name |-> env_name, importer |-> importer,
                                instrs |-> <<>>, instances |-> <<>>,
                                store |-> StoreNew], module))

(***************************************************************************)
(* The stack (exec/stack.rs): values, labels and frames.                   *)
(*   Label = [n, stack_offset, pc, cont]                                   *)
(*   Frame = [n, instance_addr, local, stack_offset, pc]                   *)
(* A machine state m is [pc, stack, store]; the result of one step is      *)
(* [kind, pc, stack, store, trap] with kind                                *)
(*   "next"  Ok(Some(pc))      "done"  Ok(None)                            *)
(*   "trap"  Err(trap)         "panic" the step panicked (a failed unwrap, *)
(*                             an index out of range, unreachable!/todo!)  *)
(***************************************************************************)
StackNew == [values |-> <<>>, labels |-> <<>>, frames |-> <<>>]

Label(n, so, pc, cont) == [n |-> n, stack_offset |-> so, pc |-> pc,
                           cont |-> cont]
Frame(n, ia, local, so, pc) == [n |-> n, instance_addr |-> ia,
                                local |-> local, stack_offset |-> so,
                                pc |-> pc]

\* a Trap (exec/trap.rs:8-19): its variant and the two function types that
\* FuncTypeNotMatch carries
NoTrap == [name |-> "", expected |-> [params |-> <<>>, results |-> <<>>],
           found |-> [params |-> <<>>, results |-> <<>>]]
Trap(name) == [NoTrap EXCEPT !.name = name]
FuncTypeNotMatch(expected, found) ==
    [name |-> "FuncTypeNotMatch", expected |-> expected, found |-> found]

Res(k, pc, stack, store, t) == [kind |-> k, pc |-> pc, stack |-> stack,
                                store |-> store, trap |-> t]
Panic(m) == Res("panic", m.pc, m.stack, m.store, NoTrap)
TrapAt(m, stack, t) == Res("trap", m.pc, stack, m.store, Trap(t))
Goto(m, pc, stack) == Res("next", pc, stack, m.store, NoTrap)

top_frame(stack) == stack.frames[Len(stack.frames)]
push_value(stack, x) == [stack EXCEPT !.values = Append(@, x)]
push_values(stack, xs) == [stack EXCEPT !.values = @ \o xs]
push_label(stack, l) == [stack EXCEPT !.labels = Append(@, l)]
push_frame(stack, f) == [stack EXCEPT !.frames = Append(@, f)]
pop_values(stack, k) == [stack EXCEPT !.values = DropLast(@, k)]
pop_label(stack) == [stack EXCEPT !.labels = DropLast(@, 1)]
pop_frame(stack) == [stack EXCEPT !.frames = DropLast(@, 1)]
values_len(stack) == Len(stack.values)
labels_len(stack) == Len(stack.labels)
frames_len(stack) == Len(stack.frames)
\* the k-th value from the top, k = 0 being the top
Peek(stack, k) == stack.values[Len(stack.values) - k]
\* pop_value::<i32>() succeeds on the top k values
CanPopI32(stack, k) ==
    /\ Len(stack.values) >= k
    /\ \A j \in 0..(k - 1) : Peek(stack, j).ty = "I32"

\* Stack::th_label
th_label(stack, th) == stack.labels[Len(stack.labels) - th]

\* Stack::values_unwind: the value stack cut back to a frame's stack_offset
values_unwind(stack, offset) ==
    IF Len(stack.values) > offset
    THEN [stack EXCEPT !.values = Take(@, offset)]
    ELSE stack

\* Stack::jump can run to its end: the label exists and the value stack
\* holds its n values on top of its stack_offset
CanJump(stack, l) ==
    /\ l < Len(stack.labels)
    /\ Len(stack.values) >= th_label(stack, l).n
    /\ Len(stack.values) - th_label(stack, l).n
          >= th_label(stack, l).stack_offset

\* Stack::jump that leaves the labels alone when the target is the label
\* of a loop
jump_keep_loop(stack, l) ==
    LET label == th_label(stack, l)
    IN  [stack EXCEPT
           !.values = Take(@, label.stack_offset) \o LastN(@, label.n),
           !.labels = IF label.cont THEN @ ELSE DropLast(@, l + 1)]

\* Stack::jump: the stack after the jump; the new pc is th_label(l).pc
jump(stack, l) ==
    LET label == th_label(stack, l)
    IN  [stack EXCEPT
           !.values = Take(@, label.stack_offset) \o LastN(@, label.n),
           !.labels = DropLast(@, l + 1)]

\* Instance::block_to_arity
block_to_arity(instance, bt) ==
    CASE bt.k = "Empty" -> 0
      [] bt.k = "ValType" -> 1
      [] OTHER -> Len(At(instance.types, bt.idx).results)

(***************************************************************************)
(* Linear memory bytes (exec/memory.rs, exec/value.rs LittleEndian).       *)
(***************************************************************************)
\* LittleEndian::write (value.rs:114-131, write_bytes): the size bytes of c,
\* least significant first, from address addr on
RECURSIVE write_bytes(_, _, _, _)
write_bytes(data, addr, c, size) ==
    IF size = 0 THEN data
    ELSE write_bytes(WriteByte(data, addr, c % 256), WAdd(addr, W(1)),
                     c \div 256, size - 1)

\* LittleEndian::read (value.rs:99-113, read_bytes): the size bytes from
\* address addr on as one integer; signed says whether the target type is
\* signed
RECURSIVE read_bytes(_, _, _, _)
read_bytes(data, addr, size, signed) ==
    LET b == ReadByte(data, addr)
    IN  IF size = 1 THEN (IF signed /\ b >= 128 THEN b - 256 ELSE b)
        ELSE b + 256 * read_bytes(data, WAdd(addr, W(1)), size - 1, signed)

\* the effective address of impl_load!/impl_store! (memory.rs:27-34, 67-74):
\* ok is FALSE when a checked_add is None or the access ends beyond the data
effective(i, memarg, size, data) ==
    LET base == SignExtend(i)
        off == W(memarg)
        ea == WAdd(base, off)
    IN  [ea |-> ea,
         ok |-> /\ ~AddOverflows(base, off)
                /\ ~AddOverflows(ea, W(size))
                /\ WLe(WAdd(ea, W(size)), data.len)]

\* impl_store! (memory.rs:55-78) for a target type of size bytes
impl_store(m, memarg, instance, size) ==
    IF instance.memaddr < 0 \/ ~CanPopI32(m.stack, 2) THEN Panic(m)
    ELSE LET c == Peek(m.stack, 0).v
             i == Peek(m.stack, 1).v
             stack == pop_values(m.stack, 2)
             mem == At(m.store.mems, instance.memaddr)
             e == effective(i, memarg, size, mem.data)
         IN  IF ~e.ok THEN TrapAt(m, stack, "MemoryOutOfBounds")
             ELSE Res("next", m.pc + 1, stack,
                      [m.store EXCEPT !.mems[instance.memaddr + 1].data =
                          write_bytes(@, e.ea, c, size)], NoTrap)

\* impl_load! (memory.rs:15-38) for a source type of size bytes
impl_load(m, memarg, instance, size, signed) ==
    IF instance.memaddr < 0 \/ ~CanPopI32(m.stack, 1) THEN Panic(m)
    ELSE LET i == Peek(m.stack, 0).v
             stack == pop_values(m.stack, 1)
             mem == At(m.store.mems, instance.memaddr)
             e == effective(i, memarg, size, mem.data)
         IN  IF ~e.ok THEN TrapAt(m, stack, "MemoryOutOfBounds")
             ELSE Goto(m, m.pc + 1,
                       push_value(stack,
                           I32(read_bytes(mem.data, e.ea, size, signed))))

\* memory::i32_store_8 (impl_store!(i32_store_8, i32, u8))
i32_store_8(m, memarg, instance) == impl_store(m, memarg, instance, 1)
\* memory::i32_store (impl_store!(i32_store, i32, i32))
i32_store(m, memarg, instance) == impl_store(m, memarg, instance, 4)
\* memory::i32_load_8u (impl_load!(i32_load_8u, i32, u8))
i32_load_8u(m, memarg, instance) == impl_load(m, memarg, instance, 1, FALSE)
\* memory::i32_load (impl_load!(i32_load, i32, i32))
i32_load(m, memarg, instance) == impl_load(m, memarg, instance, 4, TRUE)

\* memory::memory_size (memory.rs:90-94)
memory_size(m, instance) ==
    IF instance.memaddr < 0 THEN Panic(m)
    ELSE Goto(m, m.pc + 1,
              push_value(m.stack,
                  I32(Limits_min(At(m.store.mems,
                                    instance.memaddr).limits))))

\* memory::memory_grow (memory.rs:96-117).  `sz + n` and
\* `n * PAGE_SIZE as u32` are u32 operations: with overflow checks (a debug
\* build) an overflow panics, without them (a release build) it wraps.
memory_grow(m, instance, overflow_checks) ==
    IF instance.memaddr < 0 \/ ~CanPopI32(m.stack, 1) THEN Panic(m)
    ELSE
    LET mem == At(m.store.mems, instance.memaddr)
        sz == W(Limits_min(mem.limits))
        n == AsU32(Peek(m.stack, 0).v)
        stack == pop_values(m.stack, 1)
        len == U32Add(sz, n)
    IN  IF overflow_checks /\ U32AddOverflows(sz, n) THEN Panic(m)
        ELSE IF WLt(W(65536), len)
        THEN Goto(m, m.pc + 1, push_value(stack, I32(-1)))
        ELSE
        LET limits_ == Limits_set_min(mem.limits, ToInt(len))
        IN  IF ~Limits_valid(limits_)
            THEN Goto(m, m.pc + 1, push_value(stack, I32(-1)))
            ELSE IF overflow_checks /\ U32MulPageOverflows(n) THEN Panic(m)
            ELSE Res("next", m.pc + 1, push_value(stack, I32(AsI32(sz))),
                     [m.store EXCEPT
                         !["mems"][instance.memaddr + 1] =
                             [limits |-> limits_,
                              data |-> [mem.data EXCEPT !.len =
                                           WAdd(@, U32MulPage(n))]]],
                     NoTrap)

\* the loop of memory_fill (memory.rs:131-133): count writes of the four
\* bytes of val, the first at addr, each one byte further
RECURSIVE fill_loop(_, _, _, _)
fill_loop(data, addr, val, count) ==
    IF count = 0 THEN data
    ELSE fill_loop(write_bytes(data, addr, val, 4), WAdd(addr, W(1)), val,
                   count - 1)

\* memory::memory_fill (memory.rs:119-135).  When the usize `d + n`
\* overflows, a build with overflow checks panics at the addition; a build
\* without them passes the bound check with the wrapped sum and panics at
\* the first write_bytes index that is out of range.  write_bytes indexes
\* buf[addr + i] for the four bytes of val: the last write panics unless
\* d + n + 3 <= data.len().
memory_fill(m, instance) ==
    IF instance.memaddr < 0 \/ ~CanPopI32(m.stack, 3) THEN Panic(m)
    ELSE
    LET mem == At(m.store.mems, instance.memaddr)
        n == SignExtend(Peek(m.stack, 0).v)
        val == Peek(m.stack, 1).v
        d == SignExtend(Peek(m.stack, 2).v)
        stack == pop_values(m.stack, 3)
    IN  IF AddOverflows(d, n) THEN Panic(m)
        ELSE IF WLt(mem.data.len, WAdd(d, n))
        THEN TrapAt(m, stack, "MemoryOutOfBounds")
        ELSE IF n = W(0) THEN Goto(m, m.pc + 1, stack)
        ELSE IF WLt(mem.data.len, WAdd(WAdd(d, n), W(3))) \/ ~Small(n)
        THEN Panic(m)
        ELSE Res("next", m.pc + 1, stack,
                 [m.store EXCEPT !.mems[instance.memaddr + 1].data =
                     fill_loop(@, d, val, ToInt(n))],
                 NoTrap)

\* the loops of memory_copy (memory.rs:150-158): count assignments
\* data[d] = data[s], each one byte further.  The loop for d <= s runs i
\* upwards; the loop for d > s runs i downwards and indexes with
\* d + n - 1 - i, which visits the same addresses in the same upward order.
RECURSIVE copy_loop(_, _, _, _)
copy_loop(data, d, s, count) ==
    IF count = 0 THEN data
    ELSE copy_loop(WriteByte(data, d, ReadByte(data, s)), WAdd(d, W(1)),
                   WAdd(s, W(1)), count - 1)

\* memory::memory_copy (memory.rs:137-160).  When a usize sum overflows, a
\* build with overflow checks panics at the addition; a build without them
\* compares the wrapped sums and, when they pass, panics at the first
\* index that is out of range.
memory_copy(m, instance, overflow_checks) ==
    IF instance.memaddr < 0 \/ ~CanPopI32(m.stack, 3) THEN Panic(m)
    ELSE
    LET mem == At(m.store.mems, instance.memaddr)
        n == SignExtend(Peek(m.stack, 0).v)
        s == SignExtend(Peek(m.stack, 1).v)
        d == SignExtend(Peek(m.stack, 2).v)
        stack == pop_values(m.stack, 3)
    IN  IF overflow_checks /\ AddOverflows(s, n) THEN Panic(m)
        ELSE IF WLt(mem.data.len, WAdd(s, n))
        THEN TrapAt(m, stack, "MemoryOutOfBounds")
        ELSE IF overflow_checks /\ AddOverflows(d, n) THEN Panic(m)
        ELSE IF WLt(mem.data.len, WAdd(d, n))
        THEN TrapAt(m, stack, "MemoryOutOfBounds")
        ELSE IF n = W(0) THEN Goto(m, m.pc + 1, stack)
        ELSE IF AddOverflows(s, n) \/ AddOverflows(d, n) \/ ~Small(n)
        THEN Panic(m)
        ELSE Res("next", m.pc + 1, stack,
                 [m.store EXCEPT !.mems[instance.memaddr + 1].data =
                     copy_loop(@, d, s, ToInt(n))],
                 NoTrap)

\* the loop of memory_init (memory.rs:181-183)
RECURSIVE memory_init_loop(_, _, _, _, _)
memory_init_loop(data, bytes, d, s, count) ==
    IF count = 0 THEN data
    ELSE memory_init_loop(WriteByte(data, d, bytes[s + 1]), bytes,
                          WAdd(d, W(1)), s + 1, count - 1)

\* memory::memory_init (memory.rs:162-185): `&store.datas[da]` unwraps the
\* entry, which panics when it was removed
memory_init(m, x, instance, overflow_checks) ==
    IF \/ instance.memaddr < 0
       \/ ~InRange(instance.dataaddrs, x)
       \/ ~OptVec_has(m.store.datas, At(instance.dataaddrs, x))
       \/ ~CanPopI32(m.stack, 3)
    THEN Panic(m)
    ELSE
    LET mem == At(m.store.mems, instance.memaddr)
        data == At(m.store.datas.inner, At(instance.dataaddrs, x)).v
        n == SignExtend(Peek(m.stack, 0).v)
        s == SignExtend(Peek(m.stack, 1).v)
        d == SignExtend(Peek(m.stack, 2).v)
        stack == pop_values(m.stack, 3)
    IN  IF overflow_checks /\ AddOverflows(s, n) THEN Panic(m)
        ELSE IF WLt(W(Len(data.data)), WAdd(s, n))
        THEN TrapAt(m, stack, "MemoryOutOfBounds")
        ELSE IF overflow_checks /\ AddOverflows(d, n) THEN Panic(m)
        ELSE IF WLt(mem.data.len, WAdd(d, n))
        THEN TrapAt(m, stack, "MemoryOutOfBounds")
        ELSE IF n = W(0) THEN Goto(m, m.pc + 1, stack)
        ELSE IF AddOverflows(s, n) \/ AddOverflows(d, n) THEN Panic(m)
        ELSE Res("next", m.pc + 1, stack,
                 [m.store EXCEPT !.mems[instance.memaddr + 1].data =
                     memory_init_loop(@, data.data, d, ToInt(s), ToInt(n))],
                 NoTrap)

\* memory::data_drop (memory.rs:187-190)
data_drop(m, x, instance) ==
    IF \/ ~InRange(instance.dataaddrs, x)
       \/ ~InRange(m.store.datas.inner, At(instance.dataaddrs, x))
    THEN Panic(m)
    ELSE Res("next", m.pc + 1, m.stack,
             [m.store EXCEPT !.datas =
                 OptVec_remove(@, At(instance.dataaddrs, x))],
             NoTrap)

\* table::table_size (table.rs:158-163)
table_size(m, x, instance) ==
    IF ~InRange(instance.tableaddrs, x) THEN Panic(m)
    ELSE Goto(m, m.pc + 1,
              push_value(m.stack,
                  I32(Len(At(m.store.tables,
                             At(instance.tableaddrs, x)).elem))))

\* table::table_grow (table.rs:46-68).  `n as u64` extends the sign of the
\* i32 operand and the u64 `+` panics on overflow in a build with overflow
\* checks and wraps in a build without them.  A new length of 2^31 or more
\* is above every declared maximum of the model and, without a maximum,
\* more references than the allocator provides.
table_grow(m, x, instance, overflow_checks) ==
    IF \/ ~InRange(instance.tableaddrs, x)
       \/ values_len(m.stack) < 2
       \/ ~CanPopI32(m.stack, 1)
       \/ Peek(m.stack, 1).ty # "Ref"
    THEN Panic(m)
    ELSE
    LET a == At(instance.tableaddrs, x)
        tab == At(m.store.tables, a)
        sz == Len(tab.elem)
        n == SignExtend(Peek(m.stack, 0).v)
        init == Peek(m.stack, 1)
        stack == pop_values(m.stack, 2)
        len == WAdd(n, W(sz))
    IN  IF overflow_checks /\ AddOverflows(n, W(sz)) THEN Panic(m)
        ELSE IF len[3] # 0 \/ len[4] # 0
        THEN Goto(m, m.pc + 1, push_value(stack, I32(-1)))
        ELSE IF ~Small(len)
        THEN (IF tab.tabletype.limits.max >= 0
              THEN Goto(m, m.pc + 1, push_value(stack, I32(-1)))
              ELSE Panic(m))
        ELSE
        LET limits_ == Limits_set_min(tab.tabletype.limits, ToInt(len))
            from == Limits_min(tab.tabletype.limits)
            to == Limits_min(limits_)
        IN  IF ~Limits_valid(limits_)
            THEN Goto(m, m.pc + 1, push_value(stack, I32(-1)))
            ELSE Res("next", m.pc + 1, push_value(stack, I32(sz)),
                     [m.store EXCEPT !.tables[a + 1] =
                         [tabletype |-> [tab.tabletype EXCEPT
                                            !.limits = limits_],
                          elem |-> tab.elem \o
                                   [k \in 1..(IF to > from THEN to - from
                                              ELSE 0) |-> init]]],
                     NoTrap)

\* table::table_get (table.rs:13-27): the test in the code is
\* `i < tab.elem.len()`, and indexing with an i that is not below the
\* length panics
table_get(m, x, instance) ==
    IF ~InRange(instance.tableaddrs, x) \/ ~CanPopI32(m.stack, 1)
    THEN Panic(m)
    ELSE
    LET a == At(instance.tableaddrs, x)
        tab == At(m.store.tables, a)
        i == SignExtend(Peek(m.stack, 0).v)
        stack == pop_values(m.stack, 1)
    IN  IF WLt(i, W(Len(tab.elem)))
        THEN TrapAt(m, stack, "TableOutOfRange")
        ELSE IF ~(Small(i) /\ InRange(tab.elem, ToInt(i))) THEN Panic(m)
        ELSE Goto(m, m.pc + 1, push_value(stack, At(tab.elem, ToInt(i))))

\* table::table_set (table.rs:29-44), with the same test
table_set(m, x, instance) ==
    IF \/ ~InRange(instance.tableaddrs, x)
       \/ values_len(m.stack) < 2
       \/ Peek(m.stack, 0).ty # "Ref"
       \/ Peek(m.stack, 1).ty # "I32"
    THEN Panic(m)
    ELSE
    LET a == At(instance.tableaddrs, x)
        tab == At(m.store.tables, a)
        val == Peek(m.stack, 0)
        i == SignExtend(Peek(m.stack, 1).v)
        stack == pop_values(m.stack, 2)
    IN  IF WLt(i, W(Len(tab.elem)))
        THEN TrapAt(m, stack, "TableOutOfRange")
        ELSE IF ~(Small(i) /\ InRange(tab.elem, ToInt(i))) THEN Panic(m)
        ELSE Res("next", m.pc + 1, stack,
                 [m.store EXCEPT !.tables[a + 1].elem[ToInt(i) + 1] = val],
                 NoTrap)

\* the loop of table_init (table.rs:139-141): count assignments
\* tab.elem[d + i] = elem.elem[d + s]; an index beyond either vector
\* panics (ok = FALSE)
RECURSIVE table_init_loop(_, _, _, _, _, _)
table_init_loop(tab, elem, d, s, i, count) ==
    IF i >= count THEN [ok |-> TRUE, tab |-> tab]
    ELSE IF ~InRange(elem.elem, d + s) \/ ~InRange(tab.elem, d + i)
    THEN [ok |-> FALSE, tab |-> tab]
    ELSE table_init_loop([tab EXCEPT !.elem[d + i + 1] = elem.elem[d + s + 1]],
                         elem, d, s, i + 1, count)

\* table::table_init (table.rs:121-143): both sums are compared with the
\* length of the element segment
table_init(m, x, y, instance, overflow_checks) ==
    IF \/ ~InRange(instance.tableaddrs, x)
       \/ ~InRange(instance.elemaddrs, y)
       \/ ~CanPopI32(m.stack, 3)
    THEN Panic(m)
    ELSE
    LET ta == At(instance.tableaddrs, x)
        tab == At(m.store.tables, ta)
        elem == At(m.store.elems, At(instance.elemaddrs, y))
        len == W(Len(elem.elem))
        n == SignExtend(Peek(m.stack, 0).v)
        s == SignExtend(Peek(m.stack, 1).v)
        d == SignExtend(Peek(m.stack, 2).v)
        stack == pop_values(m.stack, 3)
    IN  IF overflow_checks /\ AddOverflows(s, n) THEN Panic(m)
        ELSE IF WLt(len, WAdd(s, n))
        THEN TrapAt(m, stack, "TableOutOfRange")
        ELSE IF overflow_checks /\ AddOverflows(d, n) THEN Panic(m)
        ELSE IF WLt(len, WAdd(d, n))
        THEN TrapAt(m, stack, "TableOutOfRange")
        ELSE IF n = W(0) THEN Goto(m, m.pc + 1, stack)
        ELSE IF AddOverflows(s, n) \/ AddOverflows(d, n) THEN Panic(m)
        ELSE
        LET r == table_init_loop(tab, elem, ToInt(d), ToInt(s), 0, ToInt(n))
        IN  IF ~r.ok THEN Panic(m)
            ELSE Res("next", m.pc + 1, stack,
                     [m.store EXCEPT !.tables[ta + 1] = r.tab], NoTrap)

\* table::elem_drop (table.rs:151-156): the element instance is looked up
\* and left as it is
elem_drop(m, x, instance) ==
    IF ~InRange(instance.elemaddrs, x) THEN Panic(m)
    ELSE IF ~InRange(m.store.elems, At(instance.elemaddrs, x))
    THEN Panic(m)
    ELSE Goto(m, m.pc + 1, m.stack)

\* the loops of table_copy (table.rs:108-116): count assignments
\* tables[ta_x].elem[d] = tables[ta_y].elem[s], each one element further.
\* The loop for d <= s runs i upwards; the loop for d > s runs i downwards
\* and indexes with d + n - 1 - i, which visits the same elements in the
\* same upward order.
RECURSIVE table_copy_loop(_, _, _, _, _, _)
table_copy_loop(tables, ta_x, ta_y, d, s, count) ==
    IF count = 0 THEN tables
    ELSE table_copy_loop(
             [tables EXCEPT ![ta_x + 1].elem[d + 1] =
                               tables[ta_y + 1].elem[s + 1]],
             ta_x, ta_y, d + 1, s + 1, count - 1)

\* table::table_copy (table.rs:90-119).  When a usize sum overflows, a
\* build with overflow checks panics at the addition; a build without them
\* compares the wrapped sums and, when they pass, panics at the first
\* index that is out of range.
table_copy(m, x, y, instance, overflow_checks) ==
    IF \/ ~InRange(instance.tableaddrs, x)
       \/ ~InRange(instance.tableaddrs, y)
       \/ ~CanPopI32(m.stack, 3)
    THEN Panic(m)
    ELSE
    LET ta_x == At(instance.tableaddrs, x)
        ta_y == At(instance.tableaddrs, y)
        len_x == W(Len(At(m.store.tables, ta_x).elem))
        len_y == W(Len(At(m.store.tables, ta_y).elem))
        n == SignExtend(Peek(m.stack, 0).v)
        s == SignExtend(Peek(m.stack, 1).v)
        d == SignExtend(Peek(m.stack, 2).v)
        stack == pop_values(m.stack, 3)
    IN  IF overflow_checks /\ AddOverflows(s, n) THEN Panic(m)
        ELSE IF WLt(len_y, WAdd(s, n))
        THEN TrapAt(m, stack, "TableOutOfRange")
        ELSE IF overflow_checks /\ AddOverflows(d, n) THEN Panic(m)
        ELSE IF WLt(len_x, WAdd(d, n))
        THEN TrapAt(m, stack, "TableOutOfRange")
        ELSE IF n = W(0) THEN Goto(m, m.pc + 1, stack)
        ELSE IF AddOverflows(s, n) \/ AddOverflows(d, n) THEN Panic(m)
        ELSE Res("next", m.pc + 1, stack,
                 [m.store EXCEPT !.tables =
                     table_copy_loop(@, ta_x, ta_y, ToInt(d), ToInt(s),
                                     ToInt(n))],
                 NoTrap)

(***************************************************************************)
(* The host environment (exec/env.rs): the values a host function         *)
(* returns, or the error.  "start" and "print" are those of DebugEnv::call;*)
(* "two" is a host function of an embedder's Env that returns two values;  *)
(* every other name is unknown to the environment.                         *)
(***************************************************************************)
EnvCall(name, params) ==
    CASE name = "start" -> [kind |-> "ok", values |-> <<>>]
      [] name = "two" -> [kind |-> "ok", values |-> <<I32(1), I32(2)>>]
      [] name = "print" -> IF params = <<>> THEN [kind |-> "panic",
                                                  values |-> <<>>]
                           ELSE [kind |-> "ok", values |-> <<>>]
      [] OTHER -> [kind |-> "err", values |-> <<>>]

\* the results of a host call pushed last first
push_results_reversed(stack, results) == push_values(stack, Reverse(results))

\* `for result in results { stack.push_value(result) }` (instr.rs:606-608,
\* runtime.rs:541-543)
push_results(stack, results) == push_values(stack, results)

\* the zero value of a declared local; reference types reach todo!()
HasZero(valtype) == valtype \in {"I32", "I64", "F32", "F64"}
ZeroOf(valtype) ==
    [ty |-> valtype, v |-> IF valtype = "I64" THEN <<0, 0, 0, 0>> ELSE 0]
ZeroLocals(locals) == [k \in DOMAIN locals |-> ZeroOf(locals[k])]

\* i32::checked_div: the quotient truncated toward zero
TruncDiv(a, b) == AsI32(WSDiv(SignExtend(a), SignExtend(b)))

\* pop_value::<T>() succeeds on the top k values, T the Rust type of ty
CanPopTy(stack, ty, k) ==
    /\ Len(stack.values) >= k
    /\ \A j \in 0..(k - 1) : Peek(stack, j).ty = ty

Ok(x) == [ok |-> TRUE, value |-> x, trap |-> ""]
Err(t) == [ok |-> FALSE, value |-> I32(0), trap |-> t]

\* the closures of Instr::I32DivU and I64DivU (instr.rs:278-289)
div_u(a, b) ==
    IF UWord(b) = W(0) THEN Err("DivByZero")
    ELSE Ok(OfWord(a.ty, WDivMod(UWord(a), UWord(b)).q))
\* the closure of Instr::I64DivS (instr.rs:292): checked_div is None for
\* a zero divisor and for MIN / -1
div_s(a, b) ==
    IF SWord(b) = W(0) \/ (SWord(a) = MinOf(a.ty) /\ b = OfWord(a.ty,
                                                            SignExtend(-1)))
    THEN Err("DivByZero")
    ELSE Ok(OfWord(a.ty, WSDiv(SWord(a), SWord(b))))
\* the closures of Instr::I32RemU and I64RemU (instr.rs:294-307)
rem_u(a, b) ==
    IF UWord(b) = W(0) THEN Err("DivByZero")
    ELSE Ok(OfWord(a.ty, WDivMod(UWord(a), UWord(b)).r))
\* the closures of Instr::I32RemS and I64RemS (instr.rs:309-322)
rem_s(a, b) ==
    IF SWord(b) = W(0) THEN Err("DivByZero")
    ELSE Ok(OfWord(a.ty, WSRem(SWord(a), SWord(b))))

I32Ops == {"I32DivS", "I32DivU", "I32RemS", "I32RemU"}
I64Ops == {"I64DivS", "I64DivU", "I64RemS", "I64RemU"}
OpTy(op) == IF op \in I32Ops THEN "I32" ELSE "I64"
\* the closure instr.rs:278-322 passes to binop_trap for the instruction
div_closure(op, a, b) ==
    CASE op \in {"I32DivU", "I64DivU"} -> div_u(a, b)
      [] op \in {"I32DivS", "I64DivS"} -> div_s(a, b)
      [] op \in {"I32RemU", "I64RemU"} -> rem_u(a, b)
      [] OTHER -> rem_s(a, b)

\* Stack::binop_trap (stack.rs:205-214) with the closure of instruction op
binop_trap_push(m, stack, r) ==
    IF r.ok THEN Goto(m, m.pc + 1, push_value(stack, r.value))
    ELSE TrapAt(m, stack, r.trap)
binop_trap(m, op) ==
    IF ~CanPopTy(m.stack, OpTy(op), 2) THEN Panic(m)
    ELSE binop_trap_push(m, pop_values(m.stack, 2),
                         div_closure(op, Peek(m.stack, 1),
                                     Peek(m.stack, 0)))

\* the closure of Instr::I32DivU in runtime.rs:441, `a / b` of two i32:
\* the signed quotient; a zero divisor and MIN / -1 panic in every build
runtime_i32_div_u(a, b) ==
    IF b.v = 0 \/ (a.v = MinI32 /\ b.v = -1) THEN Err("panic")
    ELSE Ok(I32(TruncDiv(a.v, b.v)))
\* the closure of Instr::I64RemS in runtime.rs:442: i64::wrapping_rem
\* panics for a zero divisor
runtime_i64_rem_s(a, b) ==
    IF b.v = W(0) THEN Err("panic")
    ELSE Ok(I64(WSRem(a.v, b.v)))
\* Stack::binary_op of runtime.rs (runtime.rs:22-27) with the closure of
\* instruction op: the closure returns a value or panics
binary_op_push(m, stack, r) ==
    IF r.ok THEN Goto(m, m.pc + 1, push_value(stack, r.value))
    ELSE Panic(m)
binary_op(m, op) ==
    IF ~CanPopTy(m.stack, OpTy(op), 2) THEN Panic(m)
    ELSE binary_op_push(m, pop_values(m.stack, 2),
                        IF op = "I32DivU"
                        THEN runtime_i32_div_u(Peek(m.stack, 1),
                                               Peek(m.stack, 0))
                        ELSE runtime_i64_rem_s(Peek(m.stack, 1),
                                               Peek(m.stack, 0)))

(***************************************************************************)
(* The instructions that exec/runtime.rs:step and exec/instr.rs:step       *)
(* execute with the same code: constants, i32.add, nop, drop, unreachable, *)
(* block, loop, if, and the local and global variable instructions.        *)
(***************************************************************************)
CommonOps == {"I32Const", "I32Add", "Nop", "Drop", "Unreachable", "Block",
              "Loop", "If", "LocalGet", "LocalSet", "LocalTee",
              "GlobalGet", "GlobalSet"}

step_common(m, ins, frame, instance) ==
    CASE ins.op = "I32Const" ->
           Goto(m, m.pc + 1, push_value(m.stack, I32(ins.a)))
      [] ins.op = "I32Add" ->
           IF ~CanPopI32(m.stack, 2) THEN Panic(m)
           ELSE Goto(m, m.pc + 1,
                     push_value(pop_values(m.stack, 2),
                                I32(wrapping_add(Peek(m.stack, 1).v,
                                                 Peek(m.stack, 0).v))))
      [] ins.op = "Nop" -> Goto(m, m.pc + 1, m.stack)
      [] ins.op = "Drop" ->
           IF values_len(m.stack) = 0 THEN Panic(m)
           ELSE Goto(m, m.pc + 1, pop_values(m.stack, 1))
      [] ins.op = "Unreachable" -> TrapAt(m, m.stack, "Unreachable")
      [] ins.op = "Block" ->
           Goto(m, m.pc + 1,
                push_label(m.stack,
                           Label(block_to_arity(instance, ins.bt),
                                 values_len(m.stack),
                                 ins.end_offset + m.pc, FALSE)))
      [] ins.op = "Loop" ->
           Goto(m, m.pc + 1,
                push_label(m.stack,
                           Label(block_to_arity(instance, ins.bt),
                                 values_len(m.stack), m.pc, TRUE)))
      [] ins.op = "If" ->
           IF ~CanPopI32(m.stack, 1) THEN Panic(m)
           ELSE LET c == Peek(m.stack, 0).v
                    stack == pop_values(m.stack, 1)
                    label == Label(block_to_arity(instance, ins.bt),
                                   values_len(stack),
                                   ins.end_offset + m.pc, FALSE)
                IN  IF c # 0 THEN Goto(m, m.pc + 1, push_label(stack, label))
                    ELSE IF ins.else_offset >= 0
                    THEN Goto(m, ins.else_offset + m.pc,
                              push_label(stack, label))
                    ELSE Goto(m, ins.end_offset + m.pc, stack)
      [] ins.op = "LocalGet" ->
           IF ~InRange(frame.local, ins.a) THEN Panic(m)
           ELSE Goto(m, m.pc + 1,
                     push_value(m.stack, At(frame.local, ins.a)))
      [] ins.op = "LocalSet" ->
           IF values_len(m.stack) = 0 \/ ~InRange(frame.local, ins.a)
           THEN Panic(m)
           ELSE Goto(m, m.pc + 1,
                     [pop_values(m.stack, 1) EXCEPT
                        !.frames[Len(m.stack.frames)].local =
                           SetAt(@, ins.a, Peek(m.stack, 0))])
      [] ins.op = "LocalTee" ->
           IF values_len(m.stack) = 0 \/ ~InRange(frame.local, ins.a)
           THEN Panic(m)
           ELSE Goto(m, m.pc + 1,
                     [m.stack EXCEPT
                        !.frames[Len(m.stack.frames)].local =
                           SetAt(@, ins.a, Peek(m.stack, 0))])
      [] ins.op = "GlobalGet" ->
           IF ~InRange(instance.globaladdrs, ins.a) THEN Panic(m)
           ELSE LET globalindex == At(instance.globaladdrs, ins.a)
                IN  IF ~InRange(m.store.globals, globalindex) THEN Panic(m)
                    ELSE Goto(m, m.pc + 1,
                              push_value(m.stack,
                                  At(m.store.globals, globalindex).value))
      [] ins.op = "GlobalSet" ->
           IF values_len(m.stack) = 0
              \/ ~InRange(instance.globaladdrs, ins.a) THEN Panic(m)
           ELSE LET globalindex == At(instance.globaladdrs, ins.a)
                IN  IF ~InRange(m.store.globals, globalindex) THEN Panic(m)
                    ELSE Res("next", m.pc + 1, pop_values(m.stack, 1),
                             [m.store EXCEPT
                                !.globals[globalindex + 1].value =
                                   Peek(m.stack, 0)], NoTrap)

(***************************************************************************)
(* exec/runtime.rs:417-599, fn step.                                       *)
(***************************************************************************)
\* Instr::Br, Instr::BrIf and Instr::BrTable end in stack.jump(l)
runtime_branch(m, stack, l) ==
    IF ~CanJump(stack, l) THEN Panic(m)
    ELSE Goto(m, th_label(stack, l).pc, jump(stack, l))

\* Instr::BrTable (runtime.rs:497-506)
runtime_br_table(m, ins) ==
    IF ~CanPopI32(m.stack, 1) THEN Panic(m)
    ELSE LET i == Peek(m.stack, 0).v
             stack == pop_values(m.stack, 1)
         IN  IF UsizeLe(i, Len(ins.indexs))
             THEN IF ~InRange(ins.indexs, i) THEN Panic(m)
                  ELSE runtime_branch(m, stack, At(ins.indexs, i))
             ELSE runtime_branch(m, stack, ins.default)

\* Instr::Return (runtime.rs:507-522)
runtime_return(m, frame) ==
    IF values_len(m.stack) < frame.n THEN Panic(m)
    ELSE LET stack == pop_frame(m.stack)
         IN  IF frames_len(stack) = 0
             THEN Res("done", m.pc, stack, m.store, NoTrap)
             ELSE Goto(m, frame.pc, stack)

\* Instr::Call (runtime.rs:523-573)
runtime_call(m, ins, frame) ==
    IF ~InRange(m.store.funcs, ins.a) THEN Panic(m)
    ELSE LET func == At(m.store.funcs, ins.a)
             p == Len(func.functype.params)
         IN  IF values_len(m.stack) < p THEN Panic(m)
             ELSE
             LET popped == Reverse(LastN(m.stack.values, p))
                 stack == pop_values(m.stack, p)
             IN  IF func.kind = "HostFunc"
                 THEN LET r == EnvCall(func.name, popped)
                      IN  CASE r.kind = "ok" ->
                                 Goto(m, m.pc + 1,
                                      push_results(stack, r.values))
                            [] r.kind = "err" ->
                                 TrapAt(m, stack, "Env")
                            [] OTHER -> Panic(m)
                 ELSE IF \E k \in DOMAIN func.locals :
                            ~HasZero(func.locals[k])
                 THEN Panic(m)
                 ELSE Goto(m, func.start,
                           push_frame(stack,
                               Frame(Len(func.functype.results),
                                     func.instance_addr,
                                     popped \o ZeroLocals(func.locals),
                                     values_len(stack), m.pc + 1)))

runtime_step(ctx, m) ==
    IF frames_len(m.stack) = 0 \/ ~InRange(ctx.instrs, m.pc) THEN Panic(m)
    ELSE
    LET frame == top_frame(m.stack)
        ins == At(ctx.instrs, m.pc)
    IN  IF ~InRange(ctx.instances, frame.instance_addr) THEN Panic(m)
        ELSE
        LET instance == At(ctx.instances, frame.instance_addr)
        IN  CASE ins.op \in CommonOps ->
                   step_common(m, ins, frame, instance)
              [] ins.op = "Br" -> runtime_branch(m, m.stack, ins.a)
              [] ins.op = "BrIf" ->
                   IF ~CanPopI32(m.stack, 1) THEN Panic(m)
                   ELSE IF Peek(m.stack, 0).v # 0
                   THEN runtime_branch(m, pop_values(m.stack, 1), ins.a)
                   ELSE Goto(m, m.pc + 1, pop_values(m.stack, 1))
              [] ins.op = "BrTable" -> runtime_br_table(m, ins)
              [] ins.op = "Return" -> runtime_return(m, frame)
              [] ins.op = "Call" -> runtime_call(m, ins, frame)
              [] ins.op = "I64Const" ->
                   Goto(m, m.pc + 1, push_value(m.stack, I64(ins.a)))
              [] ins.op \in {"I32DivU", "I64RemS"} -> binary_op(m, ins.op)
              [] OTHER -> TrapAt(m, m.stack, "NotImplemented")

(***************************************************************************)
(* exec/instr.rs:17-642, fn step, unwind_stack and attach.                 *)
(***************************************************************************)
\* unwind_stack
unwind_stack(m, frame, stack) ==
    IF values_len(stack) < frame.n THEN Panic(m)
    ELSE LET results == LastN(stack.values, frame.n)
             unwound == values_unwind(pop_values(stack, frame.n),
                                      frame.stack_offset)
             popped == pop_frame(push_values(unwound, results))
         IN  IF frames_len(popped) = 0
             THEN Res("done", m.pc, popped, m.store, NoTrap)
             ELSE Goto(m, frame.pc, popped)

\* Instr::Br, a taken Instr::BrIf and Instr::BrTable, once the label index
\* l is known (instr.rs:75-80, 85-90, 96-110)
instr_branch(m, frame, stack, l) ==
    IF l >= labels_len(stack) THEN unwind_stack(m, frame, stack)
    ELSE IF ~CanJump(stack, l) THEN Panic(m)
    ELSE Goto(m, th_label(stack, l).pc, jump(stack, l))

\* Instr::BrTable (instr.rs:93-112)
instr_br_table(m, ins, frame) ==
    IF ~CanPopI32(m.stack, 1) THEN Panic(m)
    ELSE LET i == Peek(m.stack, 0).v
             stack == pop_values(m.stack, 1)
         IN  IF UsizeLt(i, Len(ins.indexs))
             THEN instr_branch(m, frame, stack, At(ins.indexs, i))
             ELSE instr_branch(m, frame, stack, ins.default)

\* attach
attach(m, func, stack) ==
    LET p == Len(func.functype.params)
    IN  IF values_len(stack) < p THEN Panic(m)
        ELSE
        LET local == LastN(stack.values, p)
            popped == pop_values(stack, p)
        IN  IF func.kind = "HostFunc"
            THEN LET r == EnvCall(func.name, local)
                 IN  CASE r.kind = "ok" ->
                            Goto(m, m.pc + 1, push_results(popped, r.values))
                       [] r.kind = "err" -> TrapAt(m, popped, "Env")
                       [] OTHER -> Panic(m)
            ELSE IF \E k \in DOMAIN func.locals : ~HasZero(func.locals[k])
            THEN Panic(m)
            ELSE Goto(m, func.start,
                      push_frame(popped,
                          Frame(Len(func.functype.results),
                                func.instance_addr,
                                local \o ZeroLocals(func.locals),
                                values_len(popped), m.pc + 1)))

\* Instr::Call (instr.rs:117-128)
instr_call(m, ins) ==
    IF ~InRange(m.store.funcs, ins.a) THEN Panic(m)
    ELSE attach(m, At(m.store.funcs, ins.a), m.stack)

\* CallIndirect entering the referenced function whatever its type
call_indirect_untyped(m, stack, ft, func) == attach(m, func, stack)

\* Instr::CallIndirect, lines 139-151: the referenced function is entered
\* when its type is the expected one
call_indirect_enter(m, stack, ft, func) ==
    IF func.functype # ft
    THEN Res("trap", m.pc, stack, m.store,
             FuncTypeNotMatch(ft, func.functype))
    ELSE attach(m, func, stack)

\* Instr::CallIndirect (instr.rs:129-155)
instr_call_indirect(m, ins, instance) ==
    IF \/ ~InRange(instance.tableaddrs, ins.tableidx)
       \/ ~InRange(instance.types, ins.typeidx)
       \/ ~CanPopI32(m.stack, 1)
    THEN Panic(m)
    ELSE
    LET ta == At(instance.tableaddrs, ins.tableidx)
        ft == At(instance.types, ins.typeidx)
        i == Peek(m.stack, 0).v
        stack == pop_values(m.stack, 1)
    IN  IF ~InRange(m.store.tables, ta) THEN Panic(m)
        ELSE
        LET tab == At(m.store.tables, ta)
        IN  IF ~UsizeLt(i, Len(tab.elem))
            THEN TrapAt(m, stack, "TableOutOfRange")
            ELSE
            LET r == At(tab.elem, i)
            IN  IF r = RefNull THEN TrapAt(m, stack, "NotFundRef")
                ELSE IF ~InRange(m.store.funcs, r.v - 1) THEN Panic(m)
                ELSE
                call_indirect_enter(m, stack, ft,
                                    At(m.store.funcs, r.v - 1))

\* Instr::I32DivS (instr.rs:291, Stack::binop_trap)
instr_i32_div_s(m) ==
    IF ~CanPopI32(m.stack, 2) THEN Panic(m)
    ELSE LET rhs == Peek(m.stack, 0).v
             lhs == Peek(m.stack, 1).v
             stack == pop_values(m.stack, 2)
         IN  IF rhs = 0 \/ (lhs = MinI32 /\ rhs = -1)
             THEN TrapAt(m, stack, "DivByZero")
             ELSE Goto(m, m.pc + 1,
                       push_value(stack, I32(TruncDiv(lhs, rhs))))

instr_step(ctx, m) ==
    IF frames_len(m.stack) = 0 \/ ~InRange(ctx.instrs, m.pc) THEN Panic(m)
    ELSE
    LET frame == top_frame(m.stack)
        ins == At(ctx.instrs, m.pc)
    IN  IF ~InRange(ctx.instances, frame.instance_addr) THEN Panic(m)
        ELSE
        LET instance == At(ctx.instances, frame.instance_addr)
        IN  CASE ins.op \in CommonOps ->
                   step_common(m, ins, frame, instance)
              [] ins.op = "Br" -> instr_branch(m, frame, m.stack, ins.a)
              [] ins.op = "BrIf" ->
                   IF ~CanPopI32(m.stack, 1) THEN Panic(m)
                   ELSE IF Peek(m.stack, 0).v # 0
                   THEN instr_branch(m, frame, pop_values(m.stack, 1),
                                     ins.a)
                   ELSE Goto(m, m.pc + 1, pop_values(m.stack, 1))
              [] ins.op = "BrTable" -> instr_br_table(m, ins, frame)
              [] ins.op = "Return" -> unwind_stack(m, frame, m.stack)
              [] ins.op = "Call" -> instr_call(m, ins)
              [] ins.op = "CallIndirect" ->
                   instr_call_indirect(m, ins, instance)
              [] ins.op = "RefNull" ->
                   Goto(m, m.pc + 1, push_value(m.stack, RefNull))
              [] ins.op = "RefFunc" ->
                   IF ~InRange(instance.funcaddrs, ins.a) THEN Panic(m)
                   ELSE Goto(m, m.pc + 1,
                             push_value(m.stack,
                                 RefFunc(At(instance.funcaddrs, ins.a))))
              [] ins.op = "TableGrow" ->
                   table_grow(m, ins.a, instance, ctx.overflow_checks)
              [] ins.op = "TableSize" -> table_size(m, ins.a, instance)
              [] ins.op = "TableGet" -> table_get(m, ins.a, instance)
              [] ins.op = "TableSet" -> table_set(m, ins.a, instance)
              [] ins.op = "ElemDrop" -> elem_drop(m, ins.a, instance)
              [] ins.op = "TableInit" ->
                   table_init(m, ins.x, ins.y, instance,
                              ctx.overflow_checks)
              [] ins.op = "TableCopy" ->
                   table_copy(m, ins.x, ins.y, instance,
                              ctx.overflow_checks)
              [] ins.op = "I32DivS" -> instr_i32_div_s(m)
              [] ins.op = "I64Const" ->
                   Goto(m, m.pc + 1, push_value(m.stack, I64(ins.a)))
              [] ins.op \in (I32Ops \cup I64Ops) \ {"I32DivS"} ->
                   binop_trap(m, ins.op)
              [] ins.op = "I32Store8" -> i32_store_8(m, ins.a, instance)
              [] ins.op = "I32Load8U" -> i32_load_8u(m, ins.a, instance)
              [] ins.op = "I32Store" -> i32_store(m, ins.a, instance)
              [] ins.op = "I32Load" -> i32_load(m, ins.a, instance)
              [] ins.op = "MemorySize" -> memory_size(m, instance)
              [] ins.op = "MemoryFill" -> memory_fill(m, instance)
              [] ins.op = "MemoryCopy" ->
                   memory_copy(m, instance, ctx.overflow_checks)
              [] ins.op = "MemoryInit" ->
                   memory_init(m, ins.a, instance, ctx.overflow_checks)
              [] ins.op = "DataDrop" -> data_drop(m, ins.a, instance)
              [] ins.op = "MemoryGrow" ->
                   memory_grow(m, instance, ctx.overflow_checks)
              [] ins.op = "RJump" -> Goto(m, ins.a + m.pc, m.stack)
              [] ins.op = "PopLabel" ->
                   IF labels_len(m.stack) = 0 THEN Panic(m)
                   ELSE Goto(m, m.pc + 1, pop_label(m.stack))
              [] OTHER -> Panic(m)

(***************************************************************************)
(* The modules the runtime is constructed from (binary/module.rs), as the  *)
(* parser hands them over: every body is lowered by expr.                  *)
(***************************************************************************)
FuncType(ps, rs) == [params |-> ps, results |-> rs]
\* nesting is an annotation, not a field of binary::Func: the block nesting
\* of every instruction of the body, used to state properties only
Func(t, ls, body) == [typeidx |-> t, locals |-> ls, body |-> expr(body),
                      nesting |-> NestingOf(body, 0)]
Global(vt, mt, init) == [type_ |-> [valtype |-> vt, mut_ |-> mt],
                         value |-> <<init>>]
ExportFunc(nm, i) == [name |-> nm, desc |-> [k |-> "Func", idx |-> i]]
ImportFunc(md, nm, t) == [module |-> md, name |-> nm,
                          desc |-> [k |-> "TypeIdx", idx |-> t]]

CoreTypes ==
    << FuncType(<<>>, <<"I32">>),                 \* 0
       FuncType(<<"I32">>, <<"I32">>),            \* 1
       FuncType(<<"I32", "I32">>, <<"I32">>),     \* 2
       FuncType(<<"I32">>, <<>>),                 \* 3
       FuncType(<<>>, <<>>) >>                    \* 4

CoreFuncs ==
    << \* 0 add: 10 + 20
       Func(0, <<>>, <<I32Const(10), I32Const(20), Ins("I32Add")>>),
       \* 1 extra: an explicit return above an extra operand
       Func(0, <<>>, <<I32Const(1), I32Const(2), Ins("Return")>>),
       \* 2 call_extra
       Func(0, <<>>, <<Call(1)>>),
       \* 3 set_trap(x): global.set, then a trap two calls deep
       Func(3, <<>>, <<SBlock(BtEmpty, <<LocalGet(0), GlobalSet(0),
                                         I32Const(9), Call(4)>>)>>),
       \* 4 inner_trap(x)
       Func(3, <<>>, <<I32Const(5), SBlock(BtEmpty, <<Ins("Unreachable")>>),
                       Ins("Drop")>>),
       \* 5 getg
       Func(0, <<>>, <<GlobalGet(0)>>),
       \* 6 store_trap(x): i32.store8 at address 0, then 1 / 0
       Func(3, <<>>, <<I32Const(0), LocalGet(0), Ins1("I32Store8", 0),
                       I32Const(1), I32Const(0), Ins("I32DivS"),
                       Ins("Drop")>>),
       \* 7 getm
       Func(0, <<>>, <<I32Const(0), Ins1("I32Load8U", 0)>>),
       \* 8 oor: a branch to the function's own label, above an extra operand
       Func(0, <<>>, <<I32Const(8), I32Const(7), Br(0)>>),
       \* 9 call_oor: the same branch while the caller has a block open
       Func(0, <<>>, <<SBlock(BtVal, <<Call(8)>>)>>),
       \* 10 brtable(i)
       Func(1, <<>>,
            <<SBlock(BtEmpty,
                <<SBlock(BtEmpty,
                    <<SBlock(BtEmpty,
                        <<LocalGet(0), BrTable(<<0, 1>>, 2)>>),
                      I32Const(10), Ins("Return")>>),
                  I32Const(11), Ins("Return")>>),
              I32Const(12)>>),
       \* 11 locals(a, b): two parameters and two declared locals
       Func(2, <<"I32", "I64">>, <<LocalGet(0), LocalGet(2), Ins("I32Add")>>),
       \* 12 call_locals
       Func(0, <<>>, <<I32Const(1), I32Const(2), Call(11)>>),
       \* 13 reflocal: a declared local of a reference type
       Func(0, <<"FuncRef">>, <<I32Const(4)>>),
       \* 14 call_reflocal
       Func(0, <<>>, <<Call(13)>>),
       \* 15 br1: br 1 at the end of two nested blocks
       Func(0, <<>>, <<SBlock(BtVal, <<SBlock(BtVal,
                                          <<I32Const(5), Br(1)>>)>>)>>),
       \* 16 br0: br 0 at the end of one block, above an extra operand
       Func(0, <<>>, <<SBlock(BtVal, <<I32Const(4), I32Const(5), Br(0)>>)>>),
       \* 17 brif(c): br_if to the function's own label
       Func(1, <<>>, <<I32Const(3), LocalGet(0), BrIf(0), Ins("Drop"),
                       I32Const(4)>>),
       \* 18 call_brif(c)
       Func(1, <<>>, <<SBlock(BtVal, <<LocalGet(0), Call(17)>>)>>),
       \* 19 brtab_ret(i): br_table whose default is the function's own label
       Func(1, <<>>, <<SBlock(BtEmpty, <<I32Const(6), LocalGet(0),
                                         BrTable(<<0>>, 1)>>),
                       I32Const(9)>>),
       \* 20 ifelse(c)
       Func(1, <<>>, <<LocalGet(0), SIfElse(BtVal, <<I32Const(1)>>,
                                            <<I32Const(2)>>)>>),
       \* 21 call_brtab(i): brtab_ret called while a block is open
       Func(1, <<>>, <<SBlock(BtVal, <<LocalGet(0), Call(19)>>)>>) >>

CoreNames ==
    << "add", "extra", "call_extra", "set_trap", "inner_trap", "getg",
       "store_trap", "getm", "oor", "call_oor", "brtable", "locals",
       "call_locals", "reflocal", "call_reflocal", "br1", "br0", "brif",
       "call_brif", "brtab_ret", "ifelse", "call_brtab" >>

CoreModule ==
    [types |-> CoreTypes, imports |-> <<>>, funcs |-> CoreFuncs,
     globals |-> <<Global("I32", "Var", I32Const(0))>>,
     mems |-> <<[min |-> 1, max |-> -1]>>, tables |-> <<>>, elems |-> <<>>,
     datas |-> <<>>,
     exports |-> [k \in DOMAIN CoreNames |-> ExportFunc(CoreNames[k], k - 1)],
     start |-> -1]

\* "math": a helper function precedes the exported add (tests::extern_module)
MathModule ==
    [types |-> CoreTypes, imports |-> <<>>,
     funcs |-> << Func(0, <<>>, <<I32Const(99)>>),
                  Func(2, <<>>, <<LocalGet(0), LocalGet(1),
                                  Ins("I32Add")>>) >>,
     globals |-> <<>>, mems |-> <<>>, tables |-> <<>>,
     elems |-> <<>>,
     datas |-> <<>>,
     exports |-> <<ExportFunc("add", 1)>>, start |-> -1]

\* imports math.add and calls it
ExtModule ==
    [types |-> CoreTypes,
     imports |-> <<ImportFunc("math", "add", 2)>>,
     funcs |-> << Func(0, <<>>, <<I32Const(2), I32Const(4), Call(0)>>),
                  Func(1, <<>>, <<LocalGet(0), I32Const(1), Call(0)>>) >>,
     globals |-> <<>>, mems |-> <<>>, tables |-> <<>>,
     elems |-> <<>>,
     datas |-> <<>>,
     exports |-> <<ExportFunc("main", 1), ExportFunc("plus1", 2)>>,
     start |-> -1]

\* "inc": a function that increments its module's global (tests::global_module)
IncModule ==
    [types |-> CoreTypes, imports |-> <<>>,
     funcs |-> << Func(0, <<>>, <<GlobalGet(0), I32Const(1), Ins("I32Add"),
                                  GlobalSet(0), GlobalGet(0)>>) >>,
     globals |-> <<Global("I32", "Var", I32Const(0))>>, mems |-> <<>>,
     tables |-> <<>>, elems |-> <<>>,
     datas |-> <<>>,
     exports |-> <<ExportFunc("inc", 0)>>, start |-> -1]

\* imports inc.inc, calls it, re-exports it, and has a global of its own
GlobModule ==
    [types |-> CoreTypes,
     imports |-> <<ImportFunc("inc", "inc", 0)>>,
     funcs |-> << Func(0, <<>>, <<Call(0), Ins("Drop"), Call(0)>>),
                  Func(0, <<>>, <<GlobalGet(0)>>) >>,
     globals |-> <<Global("I32", "Var", I32Const(100))>>, mems |-> <<>>,
     tables |-> <<>>, elems |-> <<>>,
     datas |-> <<>>,
     exports |-> <<ExportFunc("main", 1), ExportFunc("inc", 0),
                   ExportFunc("own", 2)>>,
     start |-> -1]

FuncRefTable(min, max) ==
    [reftype |-> "FuncRef", limits |-> [min |-> min, max |-> max]]
ActiveElem(tableidx, offset, addrs) ==
    [type_ |-> "FuncRef",
     init |-> [k \in DOMAIN addrs |-> <<I32Const(addrs[k])>>],
     mode |-> [k |-> "Active", tableidx |-> tableidx,
               offset |-> <<I32Const(offset)>>]]

PassiveElem(addrs) ==
    [type_ |-> "FuncRef",
     init |-> [k \in DOMAIN addrs |-> <<I32Const(addrs[k])>>],
     mode |-> [k |-> "Passiv", tableidx |-> 0, offset |-> <<>>]]

\* a table holding a function of type 1, a function of type 0 and null,
\* and a function that calls through it
TabModule ==
    [types |-> CoreTypes, imports |-> <<>>,
     funcs |-> << \* 0 plus10(x)
                  Func(1, <<>>, <<LocalGet(0), I32Const(10),
                                  Ins("I32Add")>>),
                  \* 1 five
                  Func(0, <<>>, <<I32Const(5)>>),
                  \* 2 ci(i): call_indirect (type 1) through element i
                  Func(1, <<>>, <<I32Const(7), LocalGet(0),
                                  CallIndirect(1, 0)>>),
                  \* 3 tgrow(n): table.grow by n references to five
                  Func(1, <<>>, <<Ins1("RefFunc", 1), LocalGet(0),
                                  Ins1("TableGrow", 0)>>),
                  \* 4 tsize
                  Func(0, <<>>, <<Ins1("TableSize", 0)>>) >>,
     globals |-> <<>>, mems |-> <<>>,
     tables |-> <<FuncRefTable(3, 4)>>,
     elems |-> <<ActiveElem(0, 0, <<0, 1>>)>>,
     datas |-> <<>>,
     exports |-> <<ExportFunc("ci", 2), ExportFunc("tgrow", 3),
                   ExportFunc("tsize", 4)>>,
     start |-> -1]

\* imports math.add and designates its own function, module index 1, as
\* the start function
StartModule ==
    [types |-> CoreTypes,
     imports |-> <<ImportFunc("math", "add", 2)>>,
     funcs |-> << \* 1 init: the start function
                  Func(4, <<>>, <<I32Const(42), GlobalSet(0)>>),
                  \* 2 getg
                  Func(0, <<>>, <<GlobalGet(0)>>) >>,
     globals |-> <<Global("I32", "Var", I32Const(0))>>, mems |-> <<>>,
     tables |-> <<>>, elems |-> <<>>,
     datas |-> <<>>,
     exports |-> <<ExportFunc("getg", 2)>>,
     start |-> 1]

\* imports three host functions from the environment and calls them
HostModule ==
    [types |-> Append(CoreTypes, FuncType(<<"I32">>, <<"I32", "I32">>)),
     imports |-> << ImportFunc("env", "print", 3),
                    ImportFunc("env", "two", 5),
                    ImportFunc("env", "missing", 3) >>,
     funcs |-> << \* 3 call_print
                  Func(0, <<>>, <<I32Const(9), I32Const(8), Call(0)>>),
                  \* 4 call_two
                  Func(0, <<>>, <<I32Const(9), I32Const(8), Call(1),
                                  Ins("Drop"), Ins("I32Add")>>),
                  \* 5 call_missing
                  Func(0, <<>>, <<I32Const(9), I32Const(8), Call(2)>>) >>,
     globals |-> <<>>, mems |-> <<>>, tables |-> <<>>,
     elems |-> <<>>,
     datas |-> <<>>,
     exports |-> <<ExportFunc("call_print", 3), ExportFunc("call_two", 4),
                   ExportFunc("call_missing", 5)>>,
     start |-> -1]

\* a memory of one page that may grow to three
GrowModule ==
    [types |-> CoreTypes, imports |-> <<>>,
     funcs |-> << \* 0 grow(n)
                  Func(1, <<>>, <<LocalGet(0), Ins("MemoryGrow")>>),
                  \* 1 size
                  Func(0, <<>>, <<Ins("MemorySize")>>) >>,
     globals |-> <<>>, mems |-> <<[min |-> 1, max |-> 3]>>,
     tables |-> <<>>, elems |-> <<>>,
     datas |-> <<>>,
     exports |-> <<ExportFunc("grow", 0), ExportFunc("size", 1)>>,
     start |-> -1]

OnePage == [min |-> 1, max |-> -1]
\* 2 GiB and one page
BigPages == [min |-> 32769, max |-> -1]

\* a 4-byte store and a 4-byte load around the end of the memory, and a
\* store to and a load from an address above 2^31
MemModule(limits) ==
    [types |-> CoreTypes, imports |-> <<>>,
     funcs |-> << \* 0 st(i): i32.store offset=65531 of 0x01020304
                  Func(3, <<>>, <<LocalGet(0), I32Const(16909060),
                                  Ins1("I32Store", 65531)>>),
                  \* 1 ld(i): i32.load offset=65531
                  Func(1, <<>>, <<LocalGet(0), Ins1("I32Load", 65531)>>),
                  \* 2 st_hi: i32.store8 at address 0x80000000
                  Func(0, <<>>, <<I32Const(MinI32), I32Const(7),
                                  Ins1("I32Store8", 0), I32Const(1)>>),
                  \* 3 ld_hi: i32.load8_u at address 0x80000000
                  Func(0, <<>>, <<I32Const(MinI32),
                                  Ins1("I32Load8U", 0)>>) >>,
     globals |-> <<>>, mems |-> <<limits>>,
     tables |-> <<>>, elems |-> <<>>,
     datas |-> <<>>,
     exports |-> <<ExportFunc("st", 0), ExportFunc("ld", 1),
                   ExportFunc("st_hi", 2), ExportFunc("ld_hi", 3)>>,
     start |-> -1]

\* memory.fill of two bytes at d, of no byte at d, of the last two bytes
\* of the memory and of two bytes across its end
FillModule ==
    [types |-> CoreTypes, imports |-> <<>>,
     funcs |-> << \* 0 fill(d)
                  Func(3, <<>>, <<LocalGet(0), I32Const(16909060),
                                  I32Const(2), Ins("MemoryFill")>>),
                  \* 1 fill0(d)
                  Func(3, <<>>, <<LocalGet(0), I32Const(16909060),
                                  I32Const(0), Ins("MemoryFill")>>),
                  \* 2 fill_end
                  Func(4, <<>>, <<I32Const(65534), I32Const(16909060),
                                  I32Const(2), Ins("MemoryFill")>>),
                  \* 3 fill_oob
                  Func(4, <<>>, <<I32Const(65535), I32Const(16909060),
                                  I32Const(2), Ins("MemoryFill")>>) >>,
     globals |-> <<>>, mems |-> <<OnePage>>,
     tables |-> <<>>, elems |-> <<>>,
     datas |-> <<>>,
     exports |-> <<ExportFunc("fill", 0), ExportFunc("fill0", 1),
                   ExportFunc("fill_end", 2), ExportFunc("fill_oob", 3)>>,
     start |-> -1]

\* memory.copy of the two bytes at 1 and 2 to d, in a memory that begins
\* with the bytes 1, 2, 3, 4
CopyModule ==
    [types |-> CoreTypes, imports |-> <<>>,
     funcs |-> << \* 0 cp(d)
                  Func(3, <<>>, <<I32Const(0), I32Const(67305985),
                                  Ins1("I32Store", 0),
                                  LocalGet(0), I32Const(1), I32Const(2),
                                  Ins("MemoryCopy")>>),
                  \* 1 cp_oob: the source ends beyond the memory
                  Func(4, <<>>, <<I32Const(0), I32Const(65535), I32Const(2),
                                  Ins("MemoryCopy")>>) >>,
     globals |-> <<>>, mems |-> <<OnePage>>,
     tables |-> <<>>, elems |-> <<>>,
     datas |-> <<>>,
     exports |-> <<ExportFunc("cp", 0), ExportFunc("cp_oob", 1)>>,
     start |-> -1]

\* table.copy of the two elements at 1 and 2 to d, within one table that
\* holds the references to the functions 0, 1, 2 and null
TCopyModule ==
    [types |-> CoreTypes, imports |-> <<>>,
     funcs |-> << \* 0 tcp(d)
                  Func(3, <<>>, <<LocalGet(0), I32Const(1), I32Const(2),
                                  TableCopy(0, 0)>>),
                  \* 1 tcp_oob: the source ends beyond the table
                  Func(4, <<>>, <<I32Const(0), I32Const(3), I32Const(2),
                                  TableCopy(0, 0)>>) >>,
     globals |-> <<>>, mems |-> <<>>,
     tables |-> <<FuncRefTable(4, 4)>>,
     elems |-> <<ActiveElem(0, 0, <<0, 1, 2>>)>>,
     datas |-> <<>>,
     exports |-> <<ExportFunc("tcp", 0), ExportFunc("tcp_oob", 1)>>,
     start |-> -1]

\* table.get and table.set of element i of a table that holds the
\* references to the functions 0 and 1
TGetModule ==
    [types |-> CoreTypes \o <<FuncType(<<"I32">>, <<"FuncRef">>)>>,
     imports |-> <<>>,
     funcs |-> << \* 0 tget(i)
                  Func(5, <<>>, <<LocalGet(0), Ins1("TableGet", 0)>>),
                  \* 1 tset(i)
                  Func(3, <<>>, <<LocalGet(0), Ins1("RefFunc", 0),
                                  Ins1("TableSet", 0)>>) >>,
     globals |-> <<>>, mems |-> <<>>,
     tables |-> <<FuncRefTable(2, 2)>>,
     elems |-> <<ActiveElem(0, 0, <<0, 1>>)>>,
     datas |-> <<>>,
     exports |-> <<ExportFunc("tget", 0), ExportFunc("tset", 1)>>,
     start |-> -1]

\* table.init of a table of four nulls from the passive segment holding
\* the references to the functions 0, 1, 2
TInitModule ==
    [types |-> CoreTypes, imports |-> <<>>,
     funcs |-> << \* 0 tinit(d): one element, the first of the segment
                  Func(3, <<>>, <<LocalGet(0), I32Const(0), I32Const(1),
                                  TableInit(0, 0)>>),
                  \* 1 tinit2: the elements 1 and 2 to the start of the table
                  Func(4, <<>>, <<I32Const(0), I32Const(1), I32Const(2),
                                  TableInit(0, 0)>>),
                  \* 2 edrop
                  Func(4, <<>>, <<Ins1("ElemDrop", 0)>>),
                  \* 3 tinit0: no element
                  Func(4, <<>>, <<I32Const(0), I32Const(0), I32Const(0),
                                  TableInit(0, 0)>>) >>,
     globals |-> <<>>, mems |-> <<>>,
     tables |-> <<FuncRefTable(4, 4)>>,
     elems |-> <<PassiveElem(<<0, 1, 2>>)>>,
     datas |-> <<>>,
     exports |-> <<ExportFunc("tinit", 0), ExportFunc("tinit2", 1),
                   ExportFunc("edrop", 2), ExportFunc("tinit0", 3)>>,
     start |-> -1]

PassiveData(bytes) ==
    [init |-> bytes, mode |-> [k |-> "Passive", memory |-> 0,
                               offset |-> <<>>]]

\* Integer division and remainder.  An i32 function divides i32::MIN by
\* its parameter; an i64 function divides two constants.
I64Const(w) == Ins1("I64Const", w)
DivI32(op) == Func(1, <<>>, <<I32Const(MinI32), LocalGet(0), Ins(op)>>)
DivI64(op, a, b) == Func(5, <<>>, <<I64Const(a), I64Const(b), Ins(op)>>)
DivModule ==
    [types |-> CoreTypes \o <<FuncType(<<>>, <<"I64">>)>>,
     imports |-> <<>>,
     funcs |-> << DivI32("I32DivS"), DivI32("I32DivU"),
                  DivI32("I32RemS"), DivI32("I32RemU"),
                  \* 4..7: i64::MIN by -1
                  DivI64("I64DivS", MinI64, SignExtend(-1)),
                  DivI64("I64DivU", MinI64, SignExtend(-1)),
                  DivI64("I64RemS", MinI64, SignExtend(-1)),
                  DivI64("I64RemU", MinI64, SignExtend(-1)),
                  \* 8..11: -7 by 2
                  DivI64("I64DivS", SignExtend(-7), W(2)),
                  DivI64("I64DivU", SignExtend(-7), W(2)),
                  DivI64("I64RemS", SignExtend(-7), W(2)),
                  DivI64("I64RemU", SignExtend(-7), W(2)),
                  \* 12..15: 7 by 0
                  DivI64("I64DivS", W(7), W(0)),
                  DivI64("I64DivU", W(7), W(0)),
                  DivI64("I64RemS", W(7), W(0)),
                  DivI64("I64RemU", W(7), W(0)) >>,
     globals |-> <<>>, mems |-> <<>>, tables |-> <<>>, elems |-> <<>>,
     datas |-> <<>>,
     exports |-> <<ExportFunc("div_s", 0), ExportFunc("div_u", 1),
                   ExportFunc("rem_s", 2), ExportFunc("rem_u", 3),
                   ExportFunc("div_s64 min", 4), ExportFunc("div_u64 min", 5),
                   ExportFunc("rem_s64 min", 6), ExportFunc("rem_u64 min", 7),
                   ExportFunc("div_s64", 8), ExportFunc("div_u64", 9),
                   ExportFunc("rem_s64", 10), ExportFunc("rem_u64", 11),
                   ExportFunc("div_s64 zero", 12),
                   ExportFunc("div_u64 zero", 13),
                   ExportFunc("rem_s64 zero", 14),
                   ExportFunc("rem_u64 zero", 15)>>,
     start |-> -1]

\* Branches to the label of a loop: the body runs a second time when the
\* argument is not 0
LoopModule ==
    [types |-> CoreTypes, imports |-> <<>>,
     funcs |-> << \* 0 loop(c): br_if 0 inside the loop
                  Func(1, <<>>,
                       <<I32Const(7),
                         SLoop(BtEmpty, <<LocalGet(0), I32Const(0),
                                          LocalSet(0), BrIf(0)>>)>>),
                  \* 1 loop1(c): br_if 1 from a block inside the loop, above
                  \* an operand of the block
                  Func(1, <<>>,
                       <<I32Const(7),
                         SLoop(BtEmpty,
                               <<SBlock(BtEmpty,
                                        <<I32Const(8), LocalGet(0),
                                          I32Const(0), LocalSet(0),
                                          BrIf(1), Ins("Drop")>>)>>)>>),
                  \* 2 lres(c): br_if 0 inside a loop that has a result,
                  \* above the value the body has pushed
                  Func(1, <<>>,
                       <<SLoop(BtVal, <<I32Const(5), LocalGet(0),
                                        I32Const(0), LocalSet(0),
                                        BrIf(0)>>)>>) >>,
     globals |-> <<>>, mems |-> <<>>, tables |-> <<>>, elems |-> <<>>,
     datas |-> <<>>,
     exports |-> <<ExportFunc("loop", 0), ExportFunc("loop1", 1),
                   ExportFunc("lres", 2)>>,
     start |-> -1]

\* A callee that returns from inside a block, and a caller that branches to
\* its own block after the call
RetModule ==
    [types |-> CoreTypes, imports |-> <<>>,
     funcs |-> << \* 0 rib: return inside a block
                  Func(0, <<>>, <<SBlock(BtVal, <<I32Const(1),
                                                  Ins("Return")>>)>>),
                  \* 1 call_rib: br 0 after the call, inside a block
                  Func(0, <<>>, <<SBlock(BtVal, <<Call(0), Br(0)>>)>>) >>,
     globals |-> <<>>, mems |-> <<>>, tables |-> <<>>, elems |-> <<>>,
     datas |-> <<>>,
     exports |-> <<ExportFunc("rib", 0), ExportFunc("call_rib", 1)>>,
     start |-> -1]

\* Blocks whose block type is the function type 1, (i32) -> (i32): the
\* parameter is on the stack when the block is entered
ParamModule ==
    [types |-> CoreTypes, imports |-> <<>>,
     funcs |-> << \* 0 padd: the body adds 2 to the parameter
                  Func(0, <<>>,
                       <<I32Const(1),
                         SBlock(BtType(1), <<I32Const(2), Ins("I32Add")>>)>>),
                  \* 1 pbr: the same, then br 0
                  Func(0, <<>>,
                       <<I32Const(1),
                         SBlock(BtType(1), <<I32Const(2), Ins("I32Add"),
                                             Br(0)>>)>>) >>,
     globals |-> <<>>, mems |-> <<>>, tables |-> <<>>, elems |-> <<>>,
     datas |-> <<>>,
     exports |-> <<ExportFunc("padd", 0), ExportFunc("pbr", 1)>>,
     start |-> -1]

\* "counter": two exported functions on one global
CounterModule ==
    [types |-> CoreTypes, imports |-> <<>>,
     funcs |-> << \* 0 bump
                  Func(0, <<>>, <<GlobalGet(0), I32Const(1), Ins("I32Add"),
                                  GlobalSet(0), GlobalGet(0)>>),
                  \* 1 get
                  Func(0, <<>>, <<GlobalGet(0)>>) >>,
     globals |-> <<Global("I32", "Var", I32Const(0))>>, mems |-> <<>>,
     tables |-> <<>>, elems |-> <<>>, datas |-> <<>>,
     exports |-> <<ExportFunc("bump", 0), ExportFunc("get", 1)>>,
     start |-> -1]

\* "mid": imports inc.inc and exports a function of its own
MidModule ==
    [types |-> CoreTypes,
     imports |-> <<ImportFunc("inc", "inc", 0)>>,
     funcs |-> << Func(0, <<>>, <<I32Const(3)>>) >>,
     globals |-> <<>>, mems |-> <<>>, tables |-> <<>>, elems |-> <<>>,
     datas |-> <<>>,
     exports |-> <<ExportFunc("mid", 1)>>, start |-> -1]

\* imports two functions of "counter" and one of "mid", which has an import
\* itself
LinkModule ==
    [types |-> CoreTypes,
     imports |-> <<ImportFunc("counter", "bump", 0),
                   ImportFunc("counter", "get", 0),
                   ImportFunc("mid", "mid", 0)>>,
     funcs |-> << Func(0, <<>>, <<I32Const(1)>>) >>,
     globals |-> <<>>, mems |-> <<>>, tables |-> <<>>, elems |-> <<>>,
     datas |-> <<>>,
     exports |-> <<ExportFunc("bump", 0), ExportFunc("get", 1),
                   ExportFunc("one", 3)>>,
     start |-> -1]

\* memory.init from the passive data segment 7, 8, 9 and data.drop of it,
\* in a module that also imports math.add
DataModule ==
    [types |-> CoreTypes,
     imports |-> <<ImportFunc("math", "add", 2)>>,
     funcs |-> << \* 1 minit: the bytes 8, 9 to address 0
                  Func(4, <<>>, <<I32Const(0), I32Const(1), I32Const(2),
                                  Ins1("MemoryInit", 0)>>),
                  \* 2 minit0: no byte
                  Func(4, <<>>, <<I32Const(0), I32Const(0), I32Const(0),
                                  Ins1("MemoryInit", 0)>>),
                  \* 3 ddrop
                  Func(4, <<>>, <<Ins1("DataDrop", 0)>>) >>,
     globals |-> <<>>, mems |-> <<OnePage>>,
     tables |-> <<>>, elems |-> <<>>,
     datas |-> <<PassiveData(<<7, 8, 9>>)>>,
     exports |-> <<ExportFunc("minit", 1), ExportFunc("minit0", 2),
                   ExportFunc("ddrop", 3)>>,
     start |-> -1]

Scenarios == {"core", "ext", "glob", "tab", "start", "host", "grow", "mem",
              "big", "fill", "copy", "tcopy", "tget", "tinit", "data", "div",
              "loop", "ret", "param", "link"}
RootModule(s) == CASE s = "core" -> CoreModule
                   [] s = "ext" -> ExtModule
                   [] s = "tab" -> TabModule
                   [] s = "start" -> StartModule
                   [] s = "host" -> HostModule
                   [] s = "grow" -> GrowModule
                   [] s = "mem" -> MemModule(OnePage)
                   [] s = "big" -> MemModule(BigPages)
                   [] s = "fill" -> FillModule
                   [] s = "copy" -> CopyModule
                   [] s = "tcopy" -> TCopyModule
                   [] s = "tget" -> TGetModule
                   [] s = "tinit" -> TInitModule
                   [] s = "data" -> DataModule
                   [] s = "div" -> DivModule
                   [] s = "loop" -> LoopModule
                   [] s = "ret" -> RetModule
                   [] s = "param" -> ParamModule
                   [] s = "link" -> LinkModule
                   [] OTHER -> GlobModule
\* the importer of the runtime: module name -> module
ImporterOf(s) == CASE s \in {"core", "tab", "host", "grow", "mem", "big",
                               "fill", "copy", "tcopy", "tget", "tinit",
                               "div", "loop", "ret", "param"} -> <<>>
                   [] s \in {"ext", "start", "data"} ->
                        [n \in {"math"} |-> MathModule]
                   [] s = "link" ->
                        [n \in {"counter", "mid", "inc"} |->
                            CASE n = "counter" -> CounterModule
                              [] n = "mid" -> MidModule
                              [] OTHER -> IncModule]
                   [] OTHER -> [n \in {"inc"} |-> IncModule]

(***************************************************************************)
(* The state of a Runtime (exec/runtime.rs:142-152) and of its driver.     *)
(***************************************************************************)
VARIABLES
    stepper,    \* which fn step Runtime::step runs: "runtime" is
                \* exec/runtime.rs:417, "instr" is exec/instr.rs:17
    scen,       \* the modules the runtime was constructed from
    instrs,     \* Runtime.instrs
    instances,  \* Runtime.instances
    root,       \* Runtime.root
    store,      \* Runtime.store
    stack,      \* Runtime.stack
    pc,         \* Runtime.pc
    phase,      \* "idle": no invocation is running; "running": inside the
                \* loop of exec; "panicked": a step panicked
    outcome,    \* what the last invoke returned
    ninv,       \* number of invoke() and start() calls made so far
    inv,        \* the running (or last) invocation: its name, parameters,
                \* the Store it started from, whether an earlier invocation
                \* on this runtime ended in a trap, whether the stack it
                \* found held frames of two calls, a label and a value
    last,       \* the machine state the last transition started from
    build,      \* whether the build checks integer overflow: "debug" panics
                \* on an overflow of + and *, "release" wraps; "any" until
                \* the first step that overflows, which shows it
    shadow,     \* the value last written to every global and memory byte
    dropped,    \* the addresses of the element segments an ElemDrop was
                \* executed on
    released,   \* the slot vectors of the Store after free_runtime
    owner,      \* for every label of the stack, the number of frames the
                \* stack held when the label was pushed: the depth of the
                \* activation that pushed it
    source,     \* the body of a function as the text format writes it, a
                \* sequence of Tokens
    parser,     \* the Parser over the binary encoding of source
    parsed,     \* what parser.expr() returned
    optvec,     \* an OptVec of numbers
    held,       \* the value pushed at every address push has returned and
                \* neither remove nor pop has taken since
    call,       \* the last call on optvec: its name, argument and
                \* return value, optvec before it, and whether pop was
                \* called so far
    shared,     \* a Store that several runtimes are instantiated in
    runtimes,   \* those runtimes: the instances of each and whether
                \* free_runtime has consumed it
    event,      \* the last operation on shared: its name, the runtime it
                \* was for and shared before it
    linker      \* a Runtime::new in progress: the runtime under
                \* construction, the activations of new_instance, and how
                \* it ended

runtime_vars ==
    <<stepper, scen, instrs, instances, root, store, stack, pc, phase,
      outcome, ninv, inv, last, build, shadow, dropped, released, owner>>

loader_vars == <<source, parser, parsed>>

optvec_vars == <<optvec, held, call>>

store_vars == <<shared, runtimes, event>>

link_vars == <<linker>>

vars == <<runtime_vars, loader_vars, optvec_vars, store_vars, link_vars>>

\* no body is being loaded
NoLoader ==
    /\ source = <<>>
    /\ parser = ParserNew(<<>>)
    /\ parsed = NotParsed

\* no call on optvec was made
NoCall == [name |-> "new", arg |-> 0, ret |-> None, addr |-> 0,
           panic |-> FALSE, before |-> OptVecNew, popped |-> FALSE]
NoOptVec ==
    /\ optvec = OptVecNew
    /\ held = [a \in {} |-> 0]
    /\ call = NoCall

\* nothing was done on the shared Store
NoEvent == [name |-> "new", rt |-> 0, before |-> StoreSlots(StoreNew)]
NoShared ==
    /\ shared = StoreSlots(StoreNew)
    /\ runtimes = <<>>
    /\ event = NoEvent

\* no Runtime::new is in progress
NoLinker ==
    linker = [rt |-> <<>>, calls |-> <<>>, status |-> "none", err |-> ""]

Steppers == {"runtime", "instr"}
ArgVals == -1..MaxArg

Builds == {"debug", "release"}
CtxOf(b) == [instrs |-> instrs, instances |-> instances,
             overflow_checks |-> b = "debug"]
Ctx == CtxOf(build)
Machine == [pc |-> pc, stack |-> stack, store |-> store]

\* Runtime::step: one call of fn step
StepOf(stp, ctx, m) ==
    IF stp = "runtime" THEN runtime_step(ctx, m) ELSE instr_step(ctx, m)

NoOutcome == [kind |-> "none", results |-> <<>>, trap |-> NoTrap]
OkOutcome(rs) == [kind |-> "ok", results |-> rs, trap |-> NoTrap]
TrapOutcome(t) == [kind |-> "trap", results |-> <<>>, trap |-> t]
ErrOutcome(e) == [kind |-> "err", results |-> <<>>, trap |-> Trap(e)]

\* exec without line 392: the frame is pushed on the stack the runtime holds
exec_start_keep(old_stack, frame, start) ==
    [stack |-> push_frame(old_stack, frame), pc |-> start]

\* Runtime::exec, lines 392-395: the stack and pc the loop starts from
exec_start(old_stack, frame, start) ==
    [stack |-> push_frame(StackNew, frame), pc |-> start]

\* exec restoring the Store the invocation started from when a step traps
exec_store_rollback(r, store0) ==
    IF r.kind = "trap" THEN store0 ELSE r.store

\* Runtime::exec, line 396: the Store after a step, whatever it returned
exec_store(r, store0) == r.store

\* Runtime::exec, lines 396-397: what exec returns once the loop ends
exec_outcome(r) ==
    CASE r.kind = "done" -> OkOutcome(r.stack.values)
      [] r.kind = "trap" -> TrapOutcome(r.trap)
      [] OTHER -> NoOutcome

\* what the caller of exec returns: invoke (line 379) hands the values on,
\* start (lines 339-342) drops them
entry_outcome(r, is_start) ==
    IF is_start /\ r.kind = "done" THEN OkOutcome(<<>>)
    ELSE exec_outcome(r)

\* Stack::get_returns drains the values
get_returns(s) == [s EXCEPT !.values = <<>>]

\* Runtime::invoke, lines 346-356: the export looked up in the root instance
\* and the function it designates
InvokeTarget(insts, rt, st, name) ==
    LET exports == At(insts, rt).exports
        k == FindExport(exports, name)
    IN  IF k = 0 THEN [kind |-> "FunctionNotFound", addr |-> 0]
        ELSE IF exports[k].desc.k # "Func"
        THEN [kind |-> "NotFunction", addr |-> 0]
        ELSE [kind |-> "Func",
              addr |-> At(At(insts, rt).funcaddrs, exports[k].desc.idx)]

\* Runtime::invoke, lines 372-377: the frame of an invoked Inner function
invoke_frame(func, rt, params) ==
    Frame(Len(func.functype.results), rt, params, 0, 0)

ExportNames(insts, rt) ==
    {At(insts, rt).exports[k].name : k \in DOMAIN At(insts, rt).exports}

\* the parameter vectors an embedder passes to a function of this type
ParamsOf(functype) ==
    [DOMAIN functype.params -> {I32(x) : x \in ArgVals}]

ShadowOf(st) ==
    [globals |-> [a \in DOMAIN st.globals |-> st.globals[a].value],
     mem |-> IF st.mems = <<>> THEN <<>> ELSE st.mems[1].data.nz]

\* the owners of the labels after a transition from the stack old to the
\* stack new: push_label adds a label of the top frame, pop_label and jump
\* remove labels from the top
OwnerStep(ow, old, new) ==
    IF Len(new.labels) > Len(old.labels)
    THEN ow \o [k \in 1..(Len(new.labels) - Len(old.labels)) |->
                  Len(old.frames)]
    ELSE SubSeq(ow, 1, Len(new.labels))

Init ==
    /\ stepper \in Steppers
    /\ scen \in Scenarios
    /\ \E r \in {RuntimeNew(ImporterOf(scen), "env", RootModule(scen))} :
           /\ r.ok
           /\ instrs = r.rt.instrs
           /\ instances = r.rt.instances
           /\ root = r.addr
           /\ store = r.rt.store
           /\ shadow = ShadowOf(r.rt.store)
           /\ inv = [name |-> "", params |-> <<>>, store0 |-> r.rt.store,
                     after_trap |-> FALSE, deep |-> FALSE,
                     is_start |-> FALSE]
           /\ last = [kind |-> "none", pc |-> 0, stack |-> StackNew,
                      store |-> r.rt.store]
    /\ build = "any"
    /\ dropped = {}
    /\ released = StoreSlots(StoreNew)
    /\ owner = <<>>
    /\ stack = StackNew
    /\ pc = 0
    /\ phase = "idle"
    /\ outcome = NoOutcome
    /\ ninv = 0
    /\ NoLoader
    /\ NoOptVec
    /\ NoShared
    /\ NoLinker

\* Runtime::invoke(name, params)
Invoke(name, params) ==
    /\ phase = "idle"
    /\ ninv < MaxInvokes
    /\ ninv' = ninv + 1
    /\ inv' = [name |-> name, params |-> params, store0 |-> store,
               after_trap |-> inv.after_trap \/ outcome.kind = "trap",
               deep |-> /\ frames_len(stack) >= 2
                        /\ labels_len(stack) >= 1
                        /\ values_len(stack) >= 1,
               is_start |-> FALSE]
    /\ last' = [kind |-> "invoke", pc |-> pc, stack |-> stack,
                store |-> store]
    /\ LET t == InvokeTarget(instances, root, store, name)
       IN  IF t.kind # "Func"
           THEN /\ outcome' = ErrOutcome(t.kind)
                /\ UNCHANGED <<stack, pc, phase>>
           ELSE LET func == At(store.funcs, t.addr)
                IN  IF func.kind = "HostFunc"
                    THEN LET r == EnvCall(func.name, <<>>)
                         IN  /\ outcome' = IF r.kind = "ok"
                                           THEN OkOutcome(r.values)
                                           ELSE ErrOutcome("Env")
                             /\ phase' = IF r.kind = "panic"
                                         THEN "panicked" ELSE phase
                             /\ UNCHANGED <<stack, pc>>
                    ELSE LET e == exec_start(stack,
                                     invoke_frame(func, root, params),
                                     func.start)
                         IN  /\ stack' = e.stack
                             /\ pc' = e.pc
                             /\ phase' = "running"
                             /\ outcome' = NoOutcome
    /\ owner' = OwnerStep(owner, stack, stack')
    /\ UNCHANGED <<stepper, scen, instrs, instances, root, store, shadow,
                   dropped, released,
                   build>>
    /\ UNCHANGED <<loader_vars, optvec_vars, store_vars, link_vars>>

\* Runtime::start, lines 318-323 and 332-337: the frame of the start
\* function
start_frame(rt) == Frame(0, rt, <<>>, 0, 0)

\* Runtime::start()
Start ==
    /\ phase = "idle"
    /\ ninv < MaxInvokes
    /\ ninv' = ninv + 1
    /\ inv' = [name |-> "", params |-> <<>>, store0 |-> store,
               after_trap |-> inv.after_trap \/ outcome.kind = "trap",
               deep |-> FALSE, is_start |-> TRUE]
    /\ last' = [kind |-> "start", pc |-> pc, stack |-> stack,
                store |-> store]
    /\ LET index == At(instances, root).start
       IN  IF index < 0
           THEN /\ outcome' = OkOutcome(<<>>)
                /\ UNCHANGED <<stack, pc, phase>>
           ELSE IF ~InRange(store.funcs, index)
           THEN /\ phase' = "panicked"
                /\ UNCHANGED <<stack, pc, outcome>>
           ELSE LET func == At(store.funcs, index)
                IN  IF func.kind = "HostFunc"
                    THEN LET r == EnvCall(func.name, <<>>)
                         IN  /\ outcome' = IF r.kind = "ok"
                                           THEN OkOutcome(<<>>)
                                           ELSE ErrOutcome("Env")
                             /\ phase' = IF r.kind = "panic"
                                         THEN "panicked" ELSE phase
                             /\ UNCHANGED <<stack, pc>>
                    ELSE LET e == exec_start(stack, start_frame(root),
                                             func.start)
                         IN  /\ stack' = e.stack
                             /\ pc' = e.pc
                             /\ phase' = "running"
                             /\ outcome' = NoOutcome
    /\ owner' = OwnerStep(owner, stack, stack')
    /\ UNCHANGED <<stepper, scen, instrs, instances, root, store, shadow,
                   dropped, released,
                   build>>
    /\ UNCHANGED <<loader_vars, optvec_vars, store_vars, link_vars>>

\* the global or memory bytes the instruction at m.pc writes, as the value
\* it takes from the operand stack; r is what the step returned, and the
\* bytes a bulk memory instruction left are taken from it
ShadowStep(sh, m, r) ==
    LET ins == At(instrs, m.pc)
        instance == At(instances, top_frame(m.stack).instance_addr)
    IN  CASE ins.op = "GlobalSet" ->
               [sh EXCEPT !.globals[At(instance.globaladdrs, ins.a) + 1] =
                              Peek(m.stack, 0)]
          [] ins.op \in {"I32Store8", "I32Store"} ->
               [sh EXCEPT !.mem =
                   write_bytes([nz |-> sh.mem],
                               WAdd(SignExtend(Peek(m.stack, 1).v),
                                    W(ins.a)),
                               Peek(m.stack, 0).v,
                               IF ins.op = "I32Store8" THEN 1 ELSE 4).nz]
          [] ins.op \in {"MemoryFill", "MemoryCopy", "MemoryInit"} ->
               [sh EXCEPT !.mem = ShadowOf(r.store).mem]
          [] OTHER -> sh

\* the element segment an ElemDrop at m.pc is executed on
DroppedStep(dr, m) ==
    LET ins == At(instrs, m.pc)
        instance == At(instances, top_frame(m.stack).instance_addr)
    IN  IF ins.op = "ElemDrop" THEN dr \cup {At(instance.elemaddrs, ins.a)}
        ELSE dr

\* one iteration of the loop of Runtime::exec: Runtime::step, and the return
\* of exec when the step ends the loop
Step ==
    /\ phase = "running"
    /\ \E b \in (IF build = "any" THEN Builds ELSE {build}) :
        LET checked == StepOf(stepper, CtxOf("debug"), Machine)
            wrapping == StepOf(stepper, CtxOf("release"), Machine)
            r == IF b = "debug" THEN checked ELSE wrapping
        IN  /\ build' = IF checked # wrapping THEN b ELSE build
            /\ last' = [kind |-> "step", pc |-> pc, stack |-> stack,
                        store |-> store]
            /\ IF r.kind = "panic"
               THEN /\ phase' = "panicked"
                    /\ UNCHANGED <<store, stack, pc, outcome, shadow,
                                   dropped>>
               ELSE /\ store' = exec_store(r, inv.store0)
                    /\ pc' = IF r.kind = "next" THEN r.pc ELSE pc
                    /\ stack' = IF r.kind = "done" THEN get_returns(r.stack)
                                ELSE r.stack
                    /\ phase' = IF r.kind = "next" THEN "running"
                                ELSE "idle"
                    /\ outcome' = entry_outcome(r, inv.is_start)
                    /\ shadow' = IF r.kind = "trap" THEN shadow
                                 ELSE ShadowStep(shadow, Machine, r)
                    /\ dropped' = IF r.kind = "trap" THEN dropped
                                  ELSE DroppedStep(dropped, Machine)
    /\ owner' = OwnerStep(owner, stack, stack')
    /\ UNCHANGED <<stepper, scen, instrs, instances, root, ninv, inv,
                   released>>
    /\ UNCHANGED <<loader_vars, optvec_vars, store_vars, link_vars>>

\* Store::free_runtime(runtime) on the Store the runtime was instantiated
\* in: the runtime is consumed, no entry point of it can be called again
FreeRuntime ==
    /\ phase = "idle"
    /\ phase' = "freed"
    /\ released' = free_runtime(StoreSlots(store), instances, 1)
    /\ last' = [kind |-> "free", pc |-> pc, stack |-> stack,
                store |-> store]
    /\ UNCHANGED <<stepper, scen, instrs, instances, root, store, stack, pc,
                   outcome, ninv, inv, build, shadow, dropped, owner>>
    /\ UNCHANGED <<loader_vars, optvec_vars, store_vars, link_vars>>

InvokeSome ==
    \E name \in ExportNames(instances, root) \cup {"absent"} :
        LET t == InvokeTarget(instances, root, store, name)
        IN  IF t.kind = "Func"
            THEN \E params \in ParamsOf(At(store.funcs, t.addr).functype) :
                    Invoke(name, params)
            ELSE Invoke(name, <<>>)

Next == InvokeSome \/ Start \/ Step \/ FreeRuntime

Spec == Init /\ [][Next]_vars

(***************************************************************************)
(* Loading the body of one function: the body is written as a sequence of  *)
(* tokens, encoded as the binary format encodes it and followed by the     *)
(* 0x0B that ends the expression, and Parser::expr reads it back.          *)
(***************************************************************************)
MaxTokens == 5

Tokens == {"nop", "block", "loop", "if", "else", "end"}

\* the bytes of a token: the opcode, and 0x40 (no result) as the block type
TokenBytes(t) ==
    CASE t = "nop" -> <<1>>
      [] t = "block" -> <<2, 64>>
      [] t = "loop" -> <<3, 64>>
      [] t = "if" -> <<4, 64>>
      [] t = "else" -> <<5>>
      [] OTHER -> <<11>>

RECURSIVE BytesOf(_)
BytesOf(toks) ==
    IF toks = <<>> THEN <<11>>
    ELSE TokenBytes(Head(toks)) \o BytesOf(Tail(toks))

Sources == UNION {[1..n -> Tokens] : n \in 0..MaxTokens}

\* no runtime has been constructed
NoRuntime ==
    /\ stepper = "instr"
    /\ scen = "none"
    /\ instrs = <<>>
    /\ instances = <<>>
    /\ root = 0
    /\ store = StoreNew
    /\ shadow = ShadowOf(StoreNew)
    /\ inv = [name |-> "", params |-> <<>>, store0 |-> StoreNew,
              after_trap |-> FALSE, deep |-> FALSE, is_start |-> FALSE]
    /\ last = [kind |-> "none", pc |-> 0, stack |-> StackNew,
               store |-> StoreNew]
    /\ build = "any"
    /\ dropped = {}
    /\ released = StoreSlots(StoreNew)
    /\ owner = <<>>
    /\ stack = StackNew
    /\ pc = 0
    /\ phase = "none"
    /\ outcome = NoOutcome
    /\ ninv = 0

ParserInit ==
    /\ source \in Sources
    /\ parser = ParserNew(BytesOf(source))
    /\ parsed = NotParsed
    /\ NoRuntime
    /\ NoOptVec
    /\ NoShared
    /\ NoLinker

\* parser.expr()
Parse ==
    /\ parsed.kind = "none"
    /\ parsed' = Parser_expr(parser.bytes, parser.cursor)
    /\ parser' = [parser EXCEPT !.cursor = parsed'.cursor]
    /\ UNCHANGED <<source, runtime_vars, optvec_vars, store_vars,
                   link_vars>>

ParserNext == Parse

ParserSpec == ParserInit /\ [][ParserNext]_vars

(***************************************************************************)
(* An OptVec driven through its interface: new, then push, pop and remove  *)
(* in any order.  A call that panics ends the run.                         *)
(***************************************************************************)
MaxSlots == 3
MaxVal == 2

OptVecInit ==
    /\ NoOptVec
    /\ NoRuntime
    /\ NoLoader
    /\ NoShared
    /\ NoLinker

\* the record of a call
Called(name, arg, ret, addr, panic) ==
    [name |-> name, arg |-> arg, ret |-> ret, addr |-> addr,
     panic |-> panic, before |-> optvec,
     popped |-> call.popped \/ name = "pop"]

\* held without the address a
Without(h, a) == [b \in DOMAIN h \ {a} |-> h[b]]

\* held after push has returned the address a
Holding(h, a, value) ==
    [b \in DOMAIN h \cup {a} |-> IF b = a THEN value ELSE h[b]]

\* optvec.push(value): an index taken from free that is not within inner
\* panics
Push(value) ==
    /\ ~call.panic
    /\ optvec.free # <<>> \/ Len(optvec.inner) < MaxSlots
    /\ IF /\ optvec.free # <<>>
          /\ ~InRange(optvec.inner, optvec.free[Len(optvec.free)])
       THEN /\ call' = Called("push", value, None, 0, TRUE)
            /\ UNCHANGED <<optvec, held>>
       ELSE \E r \in {OptVec_push(optvec, value)} :
                /\ optvec' = r.ov
                /\ call' = Called("push", value, None, r.addr, FALSE)
                /\ held' = Holding(held, r.addr, value)
    /\ UNCHANGED <<runtime_vars, loader_vars, store_vars, link_vars>>

\* optvec.pop()
Pop ==
    /\ ~call.panic
    /\ call' = Called("pop", 0, Taken(optvec, Len(optvec.inner) - 1),
                       0, FALSE)
    /\ optvec' = OptVec_pop(optvec)
    /\ held' = Without(held, Len(optvec.inner) - 1)
    /\ UNCHANGED <<runtime_vars, loader_vars, store_vars, link_vars>>

\* optvec.remove(i): an index that is not within inner panics
Remove(i) ==
    /\ ~call.panic
    /\ IF ~InRange(optvec.inner, i)
       THEN /\ call' = Called("remove", i, None, 0, TRUE)
            /\ UNCHANGED <<optvec, held>>
       ELSE /\ call' = Called("remove", i, Taken(optvec, i), 0, FALSE)
            /\ optvec' = OptVec_remove(optvec, i)
            /\ held' = Without(held, i)
    /\ UNCHANGED <<runtime_vars, loader_vars, store_vars, link_vars>>

PushSome == \E value \in 1..MaxVal : Push(value)

RemoveSome == \E i \in 0..MaxSlots : Remove(i)

OptVecNext == PushSome \/ Pop \/ RemoveSome

OptVecSpec == OptVecInit /\ [][OptVecNext]_vars

(***************************************************************************)
(* One Store that several runtimes are instantiated in (spec.md:          *)
(* instantiate(store, module, importer); store.rs).  Every slot vector of  *)
(* the Store is an OptVec; what a slot holds is the number of the runtime  *)
(* whose instantiation pushed it.  The modules have no imports, so every   *)
(* runtime has one instance.                                               *)
(***************************************************************************)
MaxRuntimes == 3

\* a memory and two passive data segments, dropped by "ddrop0" and "ddrop1"
SegModule ==
    [types |-> CoreTypes, imports |-> <<>>,
     funcs |-> << Func(4, <<>>, <<Ins1("DataDrop", 0)>>),
                  Func(4, <<>>, <<Ins1("DataDrop", 1)>>) >>,
     globals |-> <<>>, mems |-> <<OnePage>>,
     tables |-> <<>>, elems |-> <<>>,
     datas |-> <<PassiveData(<<7>>), PassiveData(<<8>>)>>,
     exports |-> <<ExportFunc("ddrop0", 0), ExportFunc("ddrop1", 1)>>,
     start |-> -1]

Registered == {SegModule, CoreModule, TInitModule}

\* OptVec::push of value, n times: the new OptVec and the addresses
RECURSIVE push_each(_, _, _, _)
push_each(ov, n, value, addrs) ==
    IF n = 0 THEN [ov |-> ov, addrs |-> addrs]
    ELSE push_each(OptVec_push(ov, value).ov, n - 1, value,
                   Append(addrs, OptVec_push(ov, value).addr))

\* the number of passive segments among segs
Passives(segs) ==
    Cardinality({k \in DOMAIN segs : segs[k].mode.k \in {"Passive", "Passiv"}})

\* the pushes of an instantiation on the slot vectors of kind (store.rs:
\* allocate_global, allocate_table, allocate_mem push one slot each,
\* allocate_elem and allocate_data one for every passive segment)
allocate_each(slots, module, rt) ==
    [funcs |-> push_each(slots.funcs, Len(module.funcs), rt, <<>>),
     globals |-> push_each(slots.globals, Len(module.globals), rt, <<>>),
     mems |-> push_each(slots.mems, Len(module.mems), rt, <<>>),
     tables |-> push_each(slots.tables, Len(module.tables), rt, <<>>),
     elems |-> push_each(slots.elems, Passives(module.elems), rt, <<>>),
     datas |-> push_each(slots.datas, Passives(module.datas), rt, <<>>)]

\* the Store after the pushes r
allocated_slots(r) ==
    [funcs |-> r.funcs.ov, globals |-> r.globals.ov, mems |-> r.mems.ov,
     tables |-> r.tables.ov, elems |-> r.elems.ov, datas |-> r.datas.ov]

\* the Instance that records the addresses of the pushes r
allocated_instance(r) ==
    [funcaddrs |-> r.funcs.addrs, globaladdrs |-> r.globals.addrs,
     memaddr |-> IF r.mems.addrs = <<>> THEN -1 ELSE r.mems.addrs[1],
     tableaddrs |-> r.tables.addrs, elemaddrs |-> r.elems.addrs,
     dataaddrs |-> r.datas.addrs]

StoreInit ==
    /\ NoShared
    /\ NoRuntime
    /\ NoLoader
    /\ NoOptVec
    /\ NoLinker

\* a runtime is instantiated in the shared Store from module
Register(module) ==
    /\ Len(runtimes) < MaxRuntimes
    /\ \E r \in {allocate_each(shared, module, Len(runtimes) + 1)} :
           /\ shared' = allocated_slots(r)
           /\ runtimes' = Append(runtimes,
                                 [instances |-> <<allocated_instance(r)>>,
                                  live |-> TRUE])
    /\ event' = [name |-> "register", rt |-> Len(runtimes) + 1,
                 before |-> shared]
    /\ UNCHANGED <<runtime_vars, loader_vars, optvec_vars, link_vars>>

\* the step DataDrop(x) of the runtime rt (memory::data_drop)
DropData(rt, x) ==
    /\ rt \in DOMAIN runtimes
    /\ runtimes[rt].live
    /\ InRange(runtimes[rt].instances[1].dataaddrs, x)
    /\ shared' = [shared EXCEPT !.datas =
                     OptVec_remove(@, At(runtimes[rt].instances[1].dataaddrs,
                                         x))]
    /\ event' = [name |-> "drop", rt |-> rt, before |-> shared]
    /\ UNCHANGED runtimes
    /\ UNCHANGED <<runtime_vars, loader_vars, optvec_vars, link_vars>>

\* shared.free_runtime(runtime), which consumes the runtime rt
Free(rt) ==
    /\ rt \in DOMAIN runtimes
    /\ runtimes[rt].live
    /\ shared' = free_runtime(shared, runtimes[rt].instances, 1)
    /\ runtimes' = [runtimes EXCEPT ![rt].live = FALSE]
    /\ event' = [name |-> "free", rt |-> rt, before |-> shared]
    /\ UNCHANGED <<runtime_vars, loader_vars, optvec_vars, link_vars>>

RegisterSome == \E module \in Registered : Register(module)

DropSome == \E rt \in 1..MaxRuntimes : \E x \in 0..1 : DropData(rt, x)

FreeSome == \E rt \in 1..MaxRuntimes : Free(rt)

StoreNext == RegisterSome \/ DropSome \/ FreeSome

StoreSpec == StoreInit /\ [][StoreNext]_vars

(***************************************************************************)
(* Runtime::new, one call or return of new_instance / get_func_addr at a   *)
(* time (runtime.rs:219-313).  linker.calls are the activations of         *)
(* new_instance: the module, the import the loop is at, the funcaddrs      *)
(* collected, and the function name the calling get_func_addr looks up.    *)
(* The call stack has room for MaxCalls activations; one more aborts the   *)
(* process (status "overflow").                                            *)
(***************************************************************************)
MaxCalls == 4

\* a module with the given imports, one function of its own, exported "f"
Node(imports) ==
    [types |-> CoreTypes, imports |-> imports,
     funcs |-> << Func(0, <<>>, <<I32Const(1)>>) >>,
     globals |-> <<>>, mems |-> <<>>, tables |-> <<>>, elems |-> <<>>,
     datas |-> <<>>,
     exports |-> <<ExportFunc("f", Len(imports))>>, start |-> -1]

\* the imports the modules are written with: a function of the module "a"
\* or "b", one that "b" does not export, one of a module the importer does
\* not know, one of the environment
Wanted == {ImportFunc("a", "f", 0), ImportFunc("b", "f", 0),
           ImportFunc("b", "g", 0), ImportFunc("c", "f", 0),
           ImportFunc("env", "h", 0)}
ImportLists(n) == UNION {[1..k -> Wanted] : k \in 0..n}

\* the activation of new_instance(module) at its first import
Activation(module, funcname) ==
    [module |-> module, k |-> 1, funcaddrs |-> <<>>, funcname |-> funcname]

\* Runtime::new up to its call of new_instance(module)
Linking(importer, env_name, module) ==
    [rt |-> [env_name |-> env_name, importer |-> importer, instrs |-> <<>>,
             instances |-> <<>>, store |-> StoreNew],
     calls |-> <<Activation(module, "")>>,
     status |-> "running", err |-> ""]

LinkInit ==
    /\ \E a, b \in ImportLists(1) : \E r \in ImportLists(1) :
           linker = Linking([n \in {"a", "b"} |->
                                IF n = "a" THEN Node(a) ELSE Node(b)],
                            "env", Node(r))
    /\ NoRuntime
    /\ NoLoader
    /\ NoOptVec
    /\ NoShared

\* a RuntimeError is returned through every activation (the ? operator)
Raised(l, e) == [l EXCEPT !.status = "err", !.err = e]

\* the import loop of the activation that called goes on with addr pushed
Resumed(l, calls, rt, addr) ==
    [l EXCEPT !.rt = rt,
              !.calls = [calls EXCEPT ![Len(calls)] =
                            [@ EXCEPT !.k = @ + 1,
                                      !.funcaddrs = Append(@, addr)]]]

\* get_func_addr up to its call of new_instance (runtime.rs:291-295)
link_call(l, import) ==
    IF import.module \notin DOMAIN l.rt.importer
    THEN Raised(l, "ModuleNotFound")
    ELSE IF Len(l.calls) >= MaxCalls
    THEN [l EXCEPT !.status = "overflow"]
    ELSE [l EXCEPT !.calls =
             Append(@, Activation(l.rt.importer[import.module],
                                  import.name))]

\* one iteration of the loop over module.imports (runtime.rs:249-263)
link_import(l, top, import) ==
    IF import.desc.k # "TypeIdx"
    THEN [l EXCEPT !.calls[Len(l.calls)].k = @ + 1]
    ELSE IF import.module = l.rt.env_name
    THEN LET r == allocate_env_func(l.rt.store,
                      At(top.module.types, import.desc.idx), import.name)
         IN  Resumed(l, l.calls, [l.rt EXCEPT !.store = r.store], r.addr)
    ELSE link_call(l, import)

\* get_func_addr after new_instance returned the instance of r
\* (runtime.rs:296-312)
link_export(l, top, r) ==
    LET k == FindExport(r.instance.exports, top.funcname)
    IN  IF k = 0 THEN Raised(l, "FunctionNotFound")
        ELSE IF r.instance.exports[k].desc.k # "Func"
        THEN Raised(l, "NotFunction")
        ELSE Resumed(l, DropLast(l.calls, 1),
                     [r.rt EXCEPT !.instances = Append(@, r.instance)],
                     At(r.instance.funcaddrs,
                        r.instance.exports[k].desc.idx))

\* new_instance after the loop over module.imports, and the return to
\* Runtime::new (runtime.rs:237-243) or to get_func_addr
link_return(l, top, r) ==
    IF ~r.ok THEN Raised(l, r.err)
    ELSE IF Len(l.calls) = 1
    THEN [rt |-> push_instance(r).rt, calls |-> <<>>, status |-> "ok",
          err |-> ""]
    ELSE link_export(l, top, r)

\* what instance_globals takes for the result of the loop over the imports
Imports(l, top) ==
    [ok |-> TRUE, err |-> "", rt |-> l.rt, addr |-> 0,
     addrs |-> top.funcaddrs, instance |-> <<>>]

link_step(l, top) ==
    IF top.k <= Len(top.module.imports)
    THEN link_import(l, top, top.module.imports[top.k])
    ELSE link_return(l, top, instance_globals(top.module, Imports(l, top)))

\* the next call or return of Runtime::new
Link ==
    /\ linker.status = "running"
    /\ linker' = link_step(linker, linker.calls[Len(linker.calls)])
    /\ UNCHANGED <<runtime_vars, loader_vars, optvec_vars, store_vars>>

LinkNext == Link

\* Runtime::new runs on as long as it has not returned
LinkSpec == LinkInit /\ [][LinkNext]_vars /\ WF_vars(LinkNext)

(***************************************************************************)
(* What invoke(name, params) returns on a runtime with the given Store     *)
(* whose stack is new: exec run to its end from Stack::new().              *)
(***************************************************************************)
RECURSIVE RunLoop(_, _, _)
RunLoop(stp, ctx, m) ==
    LET r == StepOf(stp, ctx, m)
    IN  IF r.kind = "next"
        THEN RunLoop(stp, ctx, [pc |-> r.pc, stack |-> r.stack,
                                store |-> r.store])
        ELSE r

FreshInvoke(stp, ctx, rt, st, name, params) ==
    LET t == InvokeTarget(ctx.instances, rt, st, name)
        func == At(st.funcs, t.addr)
        r == RunLoop(stp, ctx,
                     [pc |-> func.start,
                      stack |-> push_frame(StackNew,
                                           invoke_frame(func, rt, params)),
                      store |-> st])
    IN  [kind |-> r.kind, outcome |-> exec_outcome(r), store |-> r.store]

(***************************************************************************)
(* Properties.  last is the machine state the last transition started      *)
(* from, so a state predicate over last and the current state relates the  *)
(* two ends of one step.                                                   *)
(***************************************************************************)
LastM == [pc |-> last.pc, stack |-> last.stack, store |-> last.store]
LastIns == At(instrs, last.pc)
LastFrame == top_frame(last.stack)
Executed(op) == last.kind = "step" /\ LastIns.op = op

\* the function the running (or last) invocation designates
InvokedFunc ==
    At(store.funcs, InvokeTarget(instances, root, store, inv.name).addr)

\* the current state is the one the loop of exec is in after a step that
\* returned r
Agrees(r) ==
    CASE r.kind = "panic" -> phase = "panicked"
      [] r.kind = "next" ->
           /\ phase = "running"
           /\ pc = r.pc /\ stack = r.stack /\ store = r.store
      [] r.kind = "done" ->
           /\ phase = "idle"
           /\ outcome = entry_outcome(r, inv.is_start)
           /\ stack = get_returns(r.stack) /\ store = r.store
      [] OTHER ->
           /\ phase = "idle"
           /\ outcome = TrapOutcome(r.trap)
           /\ stack = r.stack /\ store = r.store

\* the step from m had the instruction at last.pc been ins
StepFrom(m, ins) ==
    StepOf(stepper, [Ctx EXCEPT !.instrs = SetAt(@, last.pc, ins)], m)

\* C1: whenever invoke of an exported Inner function returns Ok(results),
\* the number of results is the number of result types of the function's
\* type, whatever the body left below the results.
C1_ResultArity ==
    (phase = "idle" /\ outcome.kind = "ok" /\ last.kind = "step")
        => Len(outcome.results) = Len(InvokedFunc.functype.results)

\* C2: an invoke that follows a trapped invocation starts from a stack that
\* holds its own frame only, and ends as it ends on a runtime with the same
\* Store and a new stack.
C2_FreshAfterTrap ==
    /\ (inv.after_trap /\ last.kind = "invoke" /\ phase = "running")
          => /\ stack = push_frame(StackNew,
                                   invoke_frame(InvokedFunc, root, inv.params))
             /\ pc = InvokedFunc.start
    /\ (inv.after_trap /\ last.kind = "step" /\ phase # "running")
          => LET f == FreshInvoke(stepper, Ctx, root, inv.store0, inv.name,
                                  inv.params)
             IN  IF phase = "panicked" THEN f.kind = "panic"
                 ELSE outcome = f.outcome /\ store = f.store

\* an invocation that found the frames of two calls, a label and a value
\* left by a trap has returned results
C2_Witness ==
    /\ inv.after_trap /\ inv.deep
    /\ last.kind = "step" /\ phase = "idle"
    /\ outcome.kind = "ok" /\ outcome.results # <<>>

\* C3: the globals and memory bytes an invocation wrote before it trapped
\* hold the written values after invoke returned the error, and the
\* GlobalGet and loads of later invocations read these values.
C3_WritesSurviveTrap ==
    /\ (outcome.kind = "trap" \/ inv.after_trap) => ShadowOf(store) = shadow
    /\ (inv.after_trap /\ Executed("GlobalGet") /\ phase = "running")
          => Peek(stack, 0) =
                shadow.globals[At(At(instances, LastFrame.instance_addr)
                                     .globaladdrs, LastIns.a) + 1]
    /\ (inv.after_trap /\ Executed("I32Load8U") /\ phase = "running")
          => LET a == WAdd(SignExtend(Peek(last.stack, 0).v), W(LastIns.a))
             IN  Peek(stack, 0) =
                    I32(IF a \in DOMAIN shadow.mem THEN shadow.mem[a] ELSE 0)

\* an invocation has read a global or a memory byte that a trapped
\* invocation wrote
C3_Witness ==
    /\ inv.after_trap /\ phase = "idle" /\ outcome.kind = "ok"
    /\ inv.name \in {"getg", "getm"}
    /\ outcome.results # <<>>
    /\ outcome.results[1].v # 0

(***************************************************************************)
(* The block nesting of every instruction of Runtime.instrs: the bodies in *)
(* the order new_instance allocates them (the modules of the imports       *)
(* first, then the module's own functions), each followed by the Return    *)
(* that allocate_func appends.                                             *)
(***************************************************************************)
RECURSIVE FuncsNesting(_, _)
FuncsNesting(funcs, k) ==
    IF k > Len(funcs) THEN <<>>
    ELSE (funcs[k].nesting \o <<0>>) \o FuncsNesting(funcs, k + 1)

RECURSIVE ImportsNesting(_, _, _, _)
ModuleNesting(importer, env_name, module) ==
    ImportsNesting(importer, env_name, module, 1)
        \o FuncsNesting(module.funcs, 1)

ImportsNesting(importer, env_name, module, k) ==
    IF k > Len(module.imports) THEN <<>>
    ELSE LET import == module.imports[k]
         IN  (IF /\ import.desc.k = "TypeIdx"
                 /\ import.module # env_name
                 /\ import.module \in DOMAIN importer
              THEN ModuleNesting(importer, env_name, importer[import.module])
              ELSE <<>>)
             \o ImportsNesting(importer, env_name, module, k + 1)

\* the number of labels the function containing pc has open at pc
LabelsOpen(p) ==
    At(ModuleNesting(ImporterOf(scen), "env", RootModule(scen)), p)

\* the Inner function whose body contains pc, and the instance defining it
FuncAt(p) ==
    CHOOSE f \in {store.funcs[a] : a \in DOMAIN store.funcs} :
        /\ f.kind = "InnerFunc" /\ f.start <= p
        /\ \A a \in DOMAIN store.funcs :
              (store.funcs[a].kind = "InnerFunc" /\ store.funcs[a].start <= p)
                  => store.funcs[a].start <= f.start
DefiningInstance(p) == At(instances, FuncAt(p).instance_addr)

\* C4: a br l that is the last instruction of l+1 nested blocks, executed
\* with the n values of the targeted block on top of the block's stack
\* offset, leaves the pc, the value stack and the label stack that falling
\* through the ends of these blocks leaves.
C4_BrIsFallThrough ==
    LET l == LastIns.a
        target == th_label(last.stack, l)
        ft == StepFrom(LastM, Ins("Nop"))
    IN  ( /\ Executed("Br")
          /\ l < LabelsOpen(last.pc)
          /\ l < labels_len(last.stack)
          /\ \A k \in 0..l : th_label(last.stack, k).pc = last.pc + 1
          /\ values_len(last.stack) = target.stack_offset + target.n )
        => /\ phase = "running"
           /\ pc = ft.pc
           /\ stack.values = ft.stack.values
           /\ stack.labels = ft.stack.labels

\* C5: Return in top frame F with arity n leaves the values below
\* F.stack_offset followed by the former top n values, pops one frame, and
\* continues at F.pc, or finishes when F was the last frame.
C5_ReturnUnwinds ==
    LET F == LastFrame
        vals == Take(last.stack.values, F.stack_offset)
                    \o LastN(last.stack.values, F.n)
        rest == DropLast(last.stack.frames, 1)
    IN  ( /\ Executed("Return")
          /\ values_len(last.stack) >= F.stack_offset + F.n )
        => IF rest = <<>>
           THEN /\ phase = "idle"
                /\ outcome = OkOutcome(vals)
                /\ stack.frames = <<>>
           ELSE /\ phase = "running"
                /\ pc = F.pc
                /\ stack.values = vals
                /\ stack.frames = rest

\* the label index a branch instruction selects, and the stack it branches
\* from: Br(l) selects l; BrIf(l) pops c and selects l when c # 0;
\* BrTable pops i and selects indexs[i] when i < len(indexs), else default
BranchTaken ==
    CASE LastIns.op = "Br" -> TRUE
      [] LastIns.op = "BrIf" ->
           CanPopI32(last.stack, 1) /\ Peek(last.stack, 0).v # 0
      [] LastIns.op = "BrTable" -> CanPopI32(last.stack, 1)
      [] OTHER -> FALSE
BranchLabel ==
    CASE LastIns.op = "BrTable" ->
           LET i == Peek(last.stack, 0).v
           IN  IF UsizeLt(i, Len(LastIns.indexs)) THEN At(LastIns.indexs, i)
               ELSE LastIns.default
      [] OTHER -> LastIns.a
BranchFrom ==
    IF LastIns.op = "Br" THEN LastM
    ELSE [LastM EXCEPT !.stack = pop_values(@, 1)]

\* C6: a taken branch whose label index is not smaller than the number of
\* labels the current function has open does what Return does in its place,
\* whatever labels the callers have open.
C6_BranchOutIsReturn ==
    ( /\ last.kind = "step"
      /\ BranchTaken
      /\ BranchLabel >= LabelsOpen(last.pc) )
    => Agrees(StepFrom(BranchFrom, Ins("Return")))

\* C7: BrTable pops the selector i and does what Br(indexs[i]) does when
\* i, read as unsigned, is smaller than len(indexs), and what Br(default)
\* does otherwise; it never indexes indexs out of range.
C7_BrTableSelects ==
    ( /\ Executed("BrTable")
      /\ CanPopI32(last.stack, 1) )
    => Agrees(StepFrom(BranchFrom, Br(BranchLabel)))

\* the locals of a frame on entry: the arguments, then a zero per local
EntryZero(valtype) ==
    IF valtype \in {"FuncRef", "ExternRef"} THEN RefNull
    ELSE IF valtype = "I64" THEN I64(W(0))
    ELSE [ty |-> valtype, v |-> 0]
EntryLocals(args, locals) ==
    args \o [k \in DOMAIN locals |-> EntryZero(locals[k])]

\* C8: the frame of an Inner function entered by invoke or by Call holds
\* the arguments in natural order followed by a zero per declared local;
\* a Call removes the arguments from the caller's operands and records
\* its pc + 1 as the return pc.
C8_FrameOnEntry ==
    /\ ( /\ last.kind = "invoke"
         /\ InvokeTarget(instances, root, store, inv.name).kind = "Func"
         /\ InvokedFunc.kind = "InnerFunc" )
       => /\ phase = "running"
          /\ top_frame(stack).local =
                EntryLocals(inv.params, InvokedFunc.locals)
    /\ LET callee == At(last.store.funcs, LastIns.a)
           p == Len(callee.functype.params)
       IN  ( /\ Executed("Call")
             /\ InRange(last.store.funcs, LastIns.a)
             /\ callee.kind = "InnerFunc"
             /\ values_len(last.stack) >= p )
           => /\ phase = "running"
              /\ stack.frames = Append(last.stack.frames, top_frame(stack))
              /\ top_frame(stack).local =
                    EntryLocals(LastN(last.stack.values, p), callee.locals)
              /\ top_frame(stack).pc = last.pc + 1
              /\ stack.values = DropLast(last.stack.values, p)

\* C9: call x in a function of instance I enters the FuncInst at Store
\* address I.funcaddrs[x].
C9_CallThroughFuncaddrs ==
    LET I == At(instances, LastFrame.instance_addr)
        target == At(last.store.funcs, At(I.funcaddrs, LastIns.a))
    IN  ( /\ Executed("Call")
          /\ InRange(I.funcaddrs, LastIns.a)
          /\ target.kind = "InnerFunc"
          /\ \A k \in DOMAIN target.locals : HasZero(target.locals[k])
          /\ values_len(last.stack) >= Len(target.functype.params) )
        => /\ phase = "running"
           /\ pc = target.start
           /\ top_frame(stack).instance_addr = target.instance_addr

\* C10: GlobalGet(i) and GlobalSet(i) in a function defined by instance J
\* read and write the global at Store address J.globaladdrs[i], however
\* the function was entered.
C10_GlobalsOfDefiningInstance ==
    LET J == DefiningInstance(last.pc)
        addr == At(J.globaladdrs, LastIns.a)
    IN  /\ ( /\ Executed("GlobalGet")
             /\ InRange(J.globaladdrs, LastIns.a) )
           => /\ phase = "running"
              /\ stack.values = Append(last.stack.values,
                                       At(last.store.globals, addr).value)
              /\ store = last.store
        /\ ( /\ Executed("GlobalSet")
             /\ InRange(J.globaladdrs, LastIns.a)
             /\ values_len(last.stack) >= 1 )
           => /\ phase = "running"
              /\ store.globals = [last.store.globals EXCEPT
                                     ![addr + 1].value = Peek(last.stack, 0)]

\* the state after a step that trapped with trap t and left stk: exec
\* returned the trap, no frame was pushed
TrappedWith(t, stk) ==
    /\ phase = "idle"
    /\ outcome = TrapOutcome(t)
    /\ stack = stk
    /\ stack.frames = last.stack.frames
    /\ store = last.store

C12_StartThroughFuncaddrs ==
    last.kind = "start"
    => LET I == At(instances, root)
           target == At(last.store.funcs, At(I.funcaddrs, I.start))
       IN  IF I.start < 0
           THEN /\ phase = "idle" /\ outcome = OkOutcome(<<>>)
                /\ stack = last.stack /\ pc = last.pc
                /\ store = last.store
           ELSE target.kind = "InnerFunc"
                => /\ phase = "running"
                   /\ pc = target.start
                   /\ stack = push_frame(StackNew, start_frame(root))

\* C13: a Call to a Host function whose env.call returns Err traps with
\* Trap::Env: no value and no frame is pushed and invoke returns the trap.
\* When env.call returns Ok(values) the frames are unchanged, the
\* parameters of the function are popped, the values are pushed in order
\* and execution continues at pc + 1.
C13_HostCall ==
    LET func == At(last.store.funcs, LastIns.a)
        p == Len(func.functype.params)
        r == EnvCall(func.name, LastN(last.stack.values, p))
    IN  ( /\ Executed("Call")
          /\ InRange(last.store.funcs, LastIns.a)
          /\ func.kind = "HostFunc"
          /\ values_len(last.stack) >= p
          /\ r.kind # "panic" )
        => /\ stack.frames = last.stack.frames
           /\ stack.labels = last.stack.labels
           /\ store = last.store
           /\ IF r.kind = "err"
              THEN /\ phase = "idle"
                   /\ outcome = TrapOutcome(Trap("Env"))
                   /\ stack.values = DropLast(last.stack.values, p)
              ELSE /\ phase = "running"
                   /\ pc = last.pc + 1
                   /\ stack.values =
                         DropLast(last.stack.values, p) \o r.values

\* after an invocation that a failing host call trapped, a host call has
\* returned two values
C13_Witness ==
    /\ Executed("Call") /\ inv.after_trap
    /\ At(last.store.funcs, LastIns.a).kind = "HostFunc"
    /\ phase = "running"
    /\ stack.values = <<I32(9), I32(1), I32(2)>>

\* the memory of the instance whose function executed the last step, before
\* and after the step
LastMem ==
    At(last.store.mems, At(instances, LastFrame.instance_addr).memaddr)
NowMem == At(store.mems, At(instances, LastFrame.instance_addr).memaddr)

\* C14: in every reachable state the data of every memory instance is
\* limits.min() * 65536 bytes long, after instantiation and after every
\* MemoryGrow, whatever its operand.
C14_LenIsMinPages ==
    \A a \in DOMAIN store.mems :
        store.mems[a].data.len = MulPage(W(Limits_min(store.mems[a].limits)))

\* C15: MemoryGrow on a memory of sz pages with operand n, unsigned, pushes
\* sz and appends n * 65536 zero bytes when sz + n <= 65536 and sz + n is
\* within the declared maximum; otherwise it pushes -1 and leaves data and
\* limits unchanged.  The bytes the memory held are not modified.
C15_MemoryGrow ==
    ( /\ stepper = "instr"
      /\ Executed("MemoryGrow")
      /\ CanPopI32(last.stack, 1) )
    => LET sz == Limits_min(LastMem.limits)
           n == AsU32(Peek(last.stack, 0).v)
           total == WAdd(W(sz), n)
           fits == /\ WLe(total, W(PAGE_SIZE))
                   /\ LastMem.limits.max >= 0
                         => WLe(total, W(LastMem.limits.max))
           popped == pop_values(last.stack, 1).values
       IN  /\ phase = "running"
           /\ NowMem.data.nz = LastMem.data.nz
           /\ IF fits
              THEN /\ stack.values = Append(popped, I32(sz))
                   /\ NowMem.data.len = WAdd(LastMem.data.len, MulPage(n))
                   /\ NowMem.limits =
                         Limits_set_min(LastMem.limits, ToInt(total))
              ELSE /\ stack.values = Append(popped, I32(-1))
                   /\ NowMem = LastMem

\* C16: TableGrow with operand n, unsigned, and init reference r pushes the
\* old length and appends n copies of r when the old length + n does not
\* violate the table's declared limits; it pushes -1 exactly when the new
\* size would violate them, and then elements and limits are unchanged.
C16_TableGrow ==
    ( /\ stepper = "instr"
      /\ Executed("TableGrow")
      /\ values_len(last.stack) >= 2
      /\ CanPopI32(last.stack, 1)
      /\ Peek(last.stack, 1).ty = "Ref" )
    => LET a == At(At(instances, LastFrame.instance_addr).tableaddrs,
                   LastIns.a)
           before == At(last.store.tables, a)
           after == At(store.tables, a)
           old == Len(before.elem)
           n == AsU32(Peek(last.stack, 0).v)
           r == Peek(last.stack, 1)
           total == WAdd(W(old), n)
           fits == /\ WLe(total, <<Limb - 1, Limb - 1, 0, 0>>)
                   /\ before.tabletype.limits.max >= 0
                         => WLe(total, W(before.tabletype.limits.max))
           popped == pop_values(last.stack, 2).values
       IN  /\ phase = "running"
           /\ IF fits
              THEN /\ stack.values = Append(popped, I32(old))
                   /\ Small(n)
                   /\ after.elem = before.elem \o [k \in 1..ToInt(n) |-> r]
              ELSE /\ stack.values = Append(popped, I32(-1))
                   /\ after = before

\* the width in bytes of the access of a load or store instruction
LoadOps == {"I32Load", "I32Load8U"}
StoreOps == {"I32Store", "I32Store8"}
AccessWidth(op) == IF op \in {"I32Load", "I32Store"} THEN 4 ELSE 1

\* every byte of data lies inside it
InsideData(data) == \A a \in DOMAIN data.nz : WLt(a, data.len)

\* C17: a load or store with popped address i, unsigned, offset off and
\* width N traps with the memory-out-of-bounds trap exactly when
\* i + off + N, computed without wrap-around, exceeds the length of the
\* data; it accesses no byte outside the data, a store changes only the
\* bytes [i + off, i + off + N) and a trapping store leaves memory
\* unchanged.
C17_AccessInBounds ==
    ( /\ stepper = "instr"
      /\ last.kind = "step"
      /\ LastIns.op \in LoadOps \cup StoreOps
      /\ CanPopI32(last.stack, IF LastIns.op \in StoreOps THEN 2 ELSE 1) )
    => LET k == IF LastIns.op \in StoreOps THEN 2 ELSE 1
           N == AccessWidth(LastIns.op)
           ea == WAdd(AsU32(Peek(last.stack, k - 1).v), W(LastIns.a))
           end == WAdd(ea, W(N))
           popped == pop_values(last.stack, k)
       IN  /\ InsideData(NowMem.data)
           /\ NowMem.data.len = LastMem.data.len
           /\ IF WLt(LastMem.data.len, end)
              THEN TrappedWith(Trap("MemoryOutOfBounds"), popped)
              ELSE /\ phase = "running"
                   /\ \A a \in DOMAIN NowMem.data.nz \cup
                               DOMAIN LastMem.data.nz :
                         (WLt(a, ea) \/ WLe(end, a))
                         => ReadByte(NowMem.data, a) =
                               ReadByte(LastMem.data, a)
                   /\ LastIns.op \in LoadOps => store = last.store

\* C18: MemoryFill with destination d and count n, both unsigned, such
\* that d + n, computed without wrap-around, exceeds the length of the data
\* traps MemoryOutOfBounds, also when n = 0, and leaves memory unchanged.
C18_FillOutOfBounds ==
    ( /\ stepper = "instr"
      /\ Executed("MemoryFill")
      /\ CanPopI32(last.stack, 3)
      /\ WLt(LastMem.data.len, WAdd(AsU32(Peek(last.stack, 2).v),
                                    AsU32(Peek(last.stack, 0).v))) )
    => TrappedWith(Trap("MemoryOutOfBounds"), pop_values(last.stack, 3))

\* C19: a MemoryFill(d, val, n) with d + n within the data sets each of the
\* bytes d .. d + n - 1 to the low 8 bits of val, leaves every byte outside
\* [d, d + n) unchanged and accesses no index beyond the data, also when
\* d + n is the length of the data.
C19_FillWrites ==
    ( /\ stepper = "instr"
      /\ Executed("MemoryFill")
      /\ CanPopI32(last.stack, 3)
      /\ WLe(WAdd(AsU32(Peek(last.stack, 2).v),
                  AsU32(Peek(last.stack, 0).v)), LastMem.data.len) )
    => LET d == AsU32(Peek(last.stack, 2).v)
           n == AsU32(Peek(last.stack, 0).v)
           end == WAdd(d, n)
           val == Peek(last.stack, 1).v
           filled == IF Small(n)
                     THEN {WAdd(d, W(k)) : k \in 0..(ToInt(n) - 1)}
                     ELSE {}
       IN  /\ phase = "running"
           /\ InsideData(NowMem.data)
           /\ NowMem.data.len = LastMem.data.len
           /\ \A a \in filled : ReadByte(NowMem.data, a) = val % 256
           /\ \A a \in (DOMAIN NowMem.data.nz \cup DOMAIN LastMem.data.nz)
                       \ filled :
                 ReadByte(NowMem.data, a) = ReadByte(LastMem.data, a)

\* C20: a MemoryCopy(d, s, n) with s + n and d + n within the data leaves,
\* for every k < n, byte d + k equal to the value byte s + k had before the
\* instruction, also when the two ranges overlap, and changes no byte
\* outside [d, d + n); when s + n or d + n exceeds the length of the data it
\* traps MemoryOutOfBounds and changes nothing.
C20_CopyOverlap ==
    ( /\ stepper = "instr"
      /\ Executed("MemoryCopy")
      /\ CanPopI32(last.stack, 3) )
    => LET n == AsU32(Peek(last.stack, 0).v)
           s == AsU32(Peek(last.stack, 1).v)
           d == AsU32(Peek(last.stack, 2).v)
           written == IF Small(n)
                      THEN {WAdd(d, W(k)) : k \in 0..(ToInt(n) - 1)}
                      ELSE {}
       IN  IF \/ WLt(LastMem.data.len, WAdd(s, n))
              \/ WLt(LastMem.data.len, WAdd(d, n))
           THEN TrappedWith(Trap("MemoryOutOfBounds"),
                            pop_values(last.stack, 3))
           ELSE /\ phase = "running"
                /\ NowMem.data.len = LastMem.data.len
                /\ \A k \in 0..(ToInt(n) - 1) :
                      ReadByte(NowMem.data, WAdd(d, W(k))) =
                         ReadByte(LastMem.data, WAdd(s, W(k)))
                /\ \A a \in (DOMAIN NowMem.data.nz \cup
                             DOMAIN LastMem.data.nz) \ written :
                      ReadByte(NowMem.data, a) = ReadByte(LastMem.data, a)

\* the tables x and y of the instance the last step ran in, before the
\* step and now
LastTable(x) ==
    At(last.store.tables,
       At(At(instances, LastFrame.instance_addr).tableaddrs, x))
NowTable(x) ==
    At(store.tables,
       At(At(instances, LastFrame.instance_addr).tableaddrs, x))

\* C21: a TableCopy(x, y) with operands d, s, n (unsigned) and s + n, d + n
\* within the tables leaves, for every k < n, element d + k of table x equal
\* to the value element s + k of table y had before the instruction, also
\* when x = y and the ranges overlap, and changes no other element; when
\* s + n exceeds the length of y or d + n that of x it traps
\* TableOutOfRange and changes nothing.
C21_TableCopy ==
    ( /\ stepper = "instr"
      /\ Executed("TableCopy")
      /\ CanPopI32(last.stack, 3) )
    => LET n == AsU32(Peek(last.stack, 0).v)
           s == AsU32(Peek(last.stack, 1).v)
           d == AsU32(Peek(last.stack, 2).v)
           tx == LastTable(LastIns.x)
           ty == LastTable(LastIns.y)
       IN  IF \/ WLt(W(Len(ty.elem)), WAdd(s, n))
              \/ WLt(W(Len(tx.elem)), WAdd(d, n))
           THEN TrappedWith(Trap("TableOutOfRange"),
                            pop_values(last.stack, 3))
           ELSE /\ phase = "running"
                /\ Len(NowTable(LastIns.x).elem) = Len(tx.elem)
                /\ \A j \in DOMAIN tx.elem :
                      NowTable(LastIns.x).elem[j] =
                         IF j - 1 >= ToInt(d) /\ j - 1 < ToInt(d) + ToInt(n)
                         THEN ty.elem[j - ToInt(d) + ToInt(s)]
                         ELSE tx.elem[j]

\* C22: TableGet(x) and TableSet(x) with popped index i (unsigned) trap
\* TableOutOfRange exactly when i is not smaller than the length of the
\* table; otherwise TableGet pushes element i, and TableSet replaces
\* element i by the popped reference and leaves every other element as it
\* was.
C22_TableGetSet ==
    /\ ( /\ stepper = "instr"
         /\ Executed("TableGet")
         /\ CanPopI32(last.stack, 1) )
       => LET i == AsU32(Peek(last.stack, 0).v)
              tab == LastTable(LastIns.a)
              stk == pop_values(last.stack, 1)
          IN  IF ~WLt(i, W(Len(tab.elem)))
              THEN TrappedWith(Trap("TableOutOfRange"), stk)
              ELSE /\ phase = "running"
                   /\ stack = push_value(stk, At(tab.elem, ToInt(i)))
                   /\ store = last.store
    /\ ( /\ stepper = "instr"
         /\ Executed("TableSet")
         /\ values_len(last.stack) >= 2
         /\ Peek(last.stack, 0).ty = "Ref"
         /\ Peek(last.stack, 1).ty = "I32" )
       => LET i == AsU32(Peek(last.stack, 1).v)
              tab == LastTable(LastIns.a)
              stk == pop_values(last.stack, 2)
          IN  IF ~WLt(i, W(Len(tab.elem)))
              THEN TrappedWith(Trap("TableOutOfRange"), stk)
              ELSE /\ phase = "running"
                   /\ stack = stk
                   /\ NowTable(LastIns.a).elem =
                         [tab.elem EXCEPT ![ToInt(i) + 1] =
                                             Peek(last.stack, 0)]

\* the element segment y of the instance the last step ran in, before the
\* step
LastElem(y) ==
    At(last.store.elems,
       At(At(instances, LastFrame.instance_addr).elemaddrs, y))

\* C23: TableInit with table T, element segment E and operands d, s, n
\* (unsigned) traps TableOutOfRange exactly when s + n > len(E) or
\* d + n > len(T); otherwise it sets T[d + k] = E[s + k] for every k < n
\* and changes no other element of T.
C23_TableInit ==
    ( /\ stepper = "instr"
      /\ Executed("TableInit")
      /\ CanPopI32(last.stack, 3) )
    => LET n == AsU32(Peek(last.stack, 0).v)
           s == AsU32(Peek(last.stack, 1).v)
           d == AsU32(Peek(last.stack, 2).v)
           T == LastTable(LastIns.x)
           E == LastElem(LastIns.y)
       IN  IF \/ WLt(W(Len(E.elem)), WAdd(s, n))
              \/ WLt(W(Len(T.elem)), WAdd(d, n))
           THEN TrappedWith(Trap("TableOutOfRange"),
                            pop_values(last.stack, 3))
           ELSE /\ phase = "running"
                /\ stack = pop_values(last.stack, 3)
                /\ Len(NowTable(LastIns.x).elem) = Len(T.elem)
                /\ \A j \in DOMAIN T.elem :
                      NowTable(LastIns.x).elem[j] =
                         IF j - 1 >= ToInt(d) /\ j - 1 < ToInt(d) + ToInt(n)
                         THEN E.elem[j - ToInt(d) + ToInt(s)]
                         ELSE T.elem[j]

\* the address of element segment x of the instance the last step ran in
LastElemAddr(x) == At(At(instances, LastFrame.instance_addr).elemaddrs, x)

\* C24: after ElemDrop(x) the element instance of segment x stays allocated
\* in the Store but is empty: a later TableInit from x with n > 0 traps
\* TableOutOfRange, a later TableInit from x with n = 0 and s = 0 succeeds,
\* and a second ElemDrop(x) changes nothing.
C24_ElemDrop ==
    /\ (stepper = "instr" /\ Executed("ElemDrop"))
       => /\ phase = "running"
          /\ Len(store.elems) = Len(last.store.elems)
          /\ Len(At(store.elems, LastElemAddr(LastIns.a)).elem) = 0
          /\ LastElemAddr(LastIns.a) \in dropped => store = last.store
    /\ ( /\ stepper = "instr"
         /\ Executed("TableInit")
         /\ CanPopI32(last.stack, 3)
         /\ LastElemAddr(LastIns.y) \in dropped )
       => IF Peek(last.stack, 0).v # 0
          THEN TrappedWith(Trap("TableOutOfRange"),
                           pop_values(last.stack, 3))
          ELSE (Peek(last.stack, 1).v = 0 /\ Peek(last.stack, 2).v = 0)
               => ( /\ phase = "running"
                    /\ stack = pop_values(last.stack, 3)
                    /\ store = last.store )

\* the address of data segment x of the instance the last step ran in, and
\* whether a DataDrop removed that segment before the last step
LastDataAddr(x) == At(At(instances, LastFrame.instance_addr).dataaddrs, x)
WasDropped(x) == ~OptVec_has(last.store.datas, LastDataAddr(x))

\* C25: after DataDrop(x) the data of segment x is no longer available: a
\* later MemoryInit(x) with n > 0 ends in the MemoryOutOfBounds trap, a
\* later MemoryInit(x) with n = 0 and s = 0 succeeds, and a second
\* DataDrop(x) has no effect on the Store.
C25_DataDrop ==
    /\ (stepper = "instr" /\ Executed("DataDrop"))
       => /\ phase = "running"
          /\ ~OptVec_has(store.datas, LastDataAddr(LastIns.a))
          /\ WasDropped(LastIns.a) => store = last.store
    /\ ( /\ stepper = "instr"
         /\ Executed("MemoryInit")
         /\ CanPopI32(last.stack, 3)
         /\ WasDropped(LastIns.a) )
       => IF Peek(last.stack, 0).v # 0
          THEN TrappedWith(Trap("MemoryOutOfBounds"),
                           pop_values(last.stack, 3))
          ELSE (Peek(last.stack, 1).v = 0 /\ Peek(last.stack, 2).v = 0)
               => ( /\ phase = "running"
                    /\ stack = pop_values(last.stack, 3)
                    /\ store = last.store )

\* the number of times a occurs in the sequence v
Occurrences(v, a) == Cardinality({k \in DOMAIN v : v[k] = a})
\* the slot a of the slot vector ov is empty and on the free list once
FreedOnce(ov, a) ==
    /\ InRange(ov.inner, a)
    /\ ~At(ov.inner, a).some
    /\ Occurrences(ov.free, a) = 1
\* the elements of the sequence v
Range(v) == {v[k] : k \in DOMAIN v}

\* C26: after free_runtime(runtime) every Store address recorded in any of
\* the runtime's instances (funcaddrs, globaladdrs, tableaddrs, elemaddrs,
\* dataaddrs, memaddr) is an empty slot and is on the free list of its slot
\* vector exactly once, also an address recorded by more than one instance
\* and a data address that DataDrop had removed before.
C26_FreeRuntime ==
    phase = "freed" =>
        \A k \in DOMAIN instances :
            /\ \A a \in Range(instances[k].funcaddrs) :
                  FreedOnce(released.funcs, a)
            /\ \A a \in Range(instances[k].globaladdrs) :
                  FreedOnce(released.globals, a)
            /\ \A a \in Range(instances[k].tableaddrs) :
                  FreedOnce(released.tables, a)
            /\ \A a \in Range(instances[k].elemaddrs) :
                  FreedOnce(released.elems, a)
            /\ \A a \in Range(instances[k].dataaddrs) :
                  FreedOnce(released.datas, a)
            /\ instances[k].memaddr >= 0
                  => FreedOnce(released.mems, instances[k].memaddr)

\* free_runtime ran on a runtime two of whose instances record the same
\* function address, after a DataDrop had removed a data segment
C26_Witness ==
    /\ phase = "freed"
    /\ \E j, k \in DOMAIN instances :
          /\ j # k
          /\ Range(instances[j].funcaddrs)
                \cap Range(instances[k].funcaddrs) # {}
    /\ \E k \in DOMAIN instances :
          \E a \in Range(instances[k].dataaddrs) :
              ~OptVec_has(last.store.datas, a)

\* the operands of the binary instruction of the last step: the divisor
\* is on top
LastLhs == Peek(last.stack, 1)
LastRhs == Peek(last.stack, 0)
\* the last step returned without trap or panic, went to the next
\* instruction and replaced the two operands by x
Yields(x) ==
    /\ phase = "running"
    /\ pc = last.pc + 1
    /\ stack = push_value(pop_values(last.stack, 2), x)
\* the last step ended in a trap
Trapped == phase = "idle" /\ outcome.kind = "trap"
\* the division instructions of a step function: exec/instr.rs has all
\* eight, exec/runtime.rs has I32DivU and I64RemS
DivOpsOf(s) == IF s = "instr" THEN I32Ops \cup I64Ops
               ELSE {"I32DivU", "I64RemS"}
DivStep ==
    /\ last.kind = "step"
    /\ LastIns.op \in DivOpsOf(stepper)
    /\ CanPopTy(last.stack, OpTy(LastIns.op), 2)

\* C27: for i32 and i64, div_s, div_u, rem_s and rem_u with a zero divisor
\* trap DivByZero; div_s of MIN by -1 traps; rem_s of MIN by -1 yields 0;
\* div_u and rem_u read both operands as unsigned numbers; every other
\* case yields the quotient truncated toward zero, or the remainder of
\* that division, modulo 2^N.
C27_DivRem ==
    DivStep =>
        LET op == LastIns.op
            ty == OpTy(op)
            a == LastLhs
            b == LastRhs
            minus_one == OfWord(ty, SignExtend(-1))
        IN  IF SWord(b) = W(0)
            THEN Trapped /\ outcome.trap = Trap("DivByZero")
            ELSE IF op \in {"I32DivS", "I64DivS"}
            THEN IF SWord(a) = MinOf(ty) /\ b = minus_one THEN Trapped
                 ELSE Yields(OfWord(ty, WSDiv(SWord(a), SWord(b))))
            ELSE IF op \in {"I32RemS", "I64RemS"}
            THEN IF SWord(a) = MinOf(ty) /\ b = minus_one
                 THEN Yields(OfWord(ty, W(0)))
                 ELSE Yields(OfWord(ty, WSRem(SWord(a), SWord(b))))
            ELSE IF op \in {"I32DivU", "I64DivU"}
            THEN Yields(OfWord(ty, WDivMod(UWord(a), UWord(b)).q))
            ELSE Yields(OfWord(ty, WDivMod(UWord(a), UWord(b)).r))

\* the last step was a taken branch whose label index l selects a label
\* of the stack: the step called Stack::jump(l).  (BrTable of runtime.rs
\* with the selector len(indexs) ends at indexs[i], before the jump.)
JumpStep ==
    /\ last.kind = "step"
    /\ BranchTaken
    /\ BranchLabel < labels_len(BranchFrom.stack)
    /\ ~ ( /\ stepper = "runtime"
           /\ LastIns.op = "BrTable"
           /\ Peek(last.stack, 0).v = Len(LastIns.indexs) )
JumpTarget == th_label(BranchFrom.stack, BranchLabel)
\* the value stack jump(l) is to leave: the values below the target's
\* stack_offset, then the target's n values from the top
JumpValues ==
    Take(BranchFrom.stack.values, JumpTarget.stack_offset)
        \o LastN(BranchFrom.stack.values, JumpTarget.n)

C29_LabelsFollowFrames ==
    phase = "running" =>
        /\ Len(owner) = labels_len(stack)
        /\ \A k \in DOMAIN owner : owner[k] <= frames_len(stack)
        /\ \A j, k \in DOMAIN owner : j <= k => owner[j] <= owner[k]

\* the number of operands an instruction without immediate control effect
\* pops from the value stack before it pushes
Pops(op) ==
    CASE op \in {"I32Add"} \cup I32Ops \cup I64Ops -> 2
      [] op \in {"Drop", "LocalSet", "LocalTee", "GlobalSet", "BrIf", "If",
                 "BrTable"} -> 1
      [] OTHER -> 0
\* the last step executed an instruction of the body of the block, loop or
\* if whose label was the top-most label: the label belongs to the running
\* activation, which has as many labels on the stack as blocks enclose the
\* instruction
InBody ==
    /\ last.kind = "step"
    /\ labels_len(last.stack) > 0
    /\ Len(owner) >= labels_len(last.stack)
    /\ Cardinality({k \in 1..labels_len(last.stack) :
                       owner[k] = frames_len(last.stack)})
          = LabelsOpen(last.pc)
    /\ owner[labels_len(last.stack)] = frames_len(last.stack)

\* C30: for every block, loop and if, also with a function type with
\* parameters as block type: while its label is the top-most label no
\* instruction of its body pops an operand stored below label.stack_offset,
\* and whenever jump targets the label the values that remain after taking
\* its n results off are at least stack_offset many.
C30_OperandsAboveOffset ==
    /\ InBody =>
          values_len(last.stack) - Pops(LastIns.op)
             >= th_label(last.stack, 0).stack_offset
    /\ JumpStep =>
          values_len(BranchFrom.stack) - JumpTarget.n
             >= JumpTarget.stack_offset


\* C31: in every reachable state every table instance holds exactly
\* limits.min() elements: after allocate_table and after every TableGrow,
\* whatever its operand and whether it succeeds or fails.
C31_TableLenIsMin ==
    \A a \in DOMAIN store.tables :
        Len(store.tables[a].elem) =
            Limits_min(store.tables[a].tabletype.limits)


\* the tokens of source are well nested: every block, loop and if has its
\* end, and every else belongs to an if that has none yet
RECURSIVE Nest(_, _, _)
Nest(toks, i, open) ==
    IF i > Len(toks) THEN open = <<>>
    ELSE CASE toks[i] = "nop" -> Nest(toks, i + 1, open)
           [] toks[i] \in {"block", "loop", "if"} ->
                Nest(toks, i + 1, Append(open, toks[i]))
           [] toks[i] = "else" ->
                /\ open # <<>>
                /\ open[Len(open)] = "if"
                /\ Nest(toks, i + 1, [open EXCEPT ![Len(open)] = "else"])
           [] OTHER ->
                /\ open # <<>>
                /\ Nest(toks, i + 1, DropLast(open, 1))
WellNested(toks) == Nest(toks, 1, <<>>)

\* the end that closes what is open at token j with d blocks opened since
RECURSIVE Closing(_, _, _)
Closing(toks, j, d) ==
    CASE toks[j] \in {"block", "loop", "if"} -> Closing(toks, j + 1, d + 1)
      [] toks[j] = "end" ->
           IF d = 0 THEN j ELSE Closing(toks, j + 1, d - 1)
      [] OTHER -> Closing(toks, j + 1, d)
EndOf(toks, i) == Closing(toks, i + 1, 0)
ElsesOf(toks, i) ==
    {j \in (i + 1)..EndOf(toks, i) :
        toks[j] = "else" /\ EndOf(toks, j) = EndOf(toks, i)}
ElseOf(toks, i) == CHOOSE j \in ElsesOf(toks, i) : TRUE

\* the position in the lowered stream of the first instruction that comes
\* from token k or a later one: every token but end gives one instruction
\* (else gives the relative jump that ends the then-branch)
Pos(toks, k) == Cardinality({j \in 1..(k - 1) : toks[j] # "end"})

\* C32: in the lowered stream of a well nested body, for a block at p,
\* p + end_offset is the first instruction after the block; for an if
\* without else at p, p + end_offset is the first instruction after the
\* then-branch; for an if with else at p, p + else_offset is the first
\* instruction of the else-branch, the instruction before it is the
\* relative jump, whose target is p + end_offset, the first instruction
\* after the whole if.
C32_Offsets ==
    (parsed.kind # "none" /\ WellNested(source)) =>
        /\ parsed.kind = "ok"
        /\ \A i \in DOMAIN source :
            LET p == Pos(source, i)
                ins == At(parsed.v, p)
                after == Pos(source, EndOf(source, i) + 1)
                q == p + ins.else_offset
            IN  CASE source[i] = "block" ->
                       /\ ins.op = "Block"
                       /\ p + ins.end_offset = after
                  [] source[i] = "if" /\ ElsesOf(source, i) = {} ->
                       /\ ins.op = "If"
                       /\ ins.else_offset < 0
                       /\ p + ins.end_offset = after
                  [] source[i] = "if" /\ ElsesOf(source, i) # {} ->
                       /\ ins.op = "If"
                       /\ q = Pos(source, ElseOf(source, i) + 1)
                       /\ At(parsed.v, q - 1).op = "RJump"
                       /\ q - 1 + At(parsed.v, q - 1).a = p + ins.end_offset
                       /\ p + ins.end_offset = after
                  [] OTHER -> TRUE


\* the last step branched to the label of a loop: the label's pc is not
\* ahead of the branch
LoopBranch ==
    /\ JumpStep
    /\ CanJump(BranchFrom.stack, BranchLabel)
    /\ JumpTarget.pc <= last.pc

\* the step that executes the instruction at pc next
Reentered == StepOf(stepper, CtxOf("debug"), Machine)

\* the first instruction after the loop whose Loop instruction is at p
LoopExit(p) ==
    CHOOSE q \in (p + 1)..Len(instrs) :
        /\ LabelsOpen(q) <= LabelsOpen(p)
        /\ \A k \in (p + 1)..(q - 1) : LabelsOpen(k) > LabelsOpen(p)

\* the last step executed the last instruction of the body of the loop at
\* p, and it neither branched nor called nor returned
FellOut(p) ==
    /\ last.kind = "step"
    /\ phase = "running"
    /\ At(instrs, p).op = "Loop"
    /\ last.pc > p
    /\ last.pc = LoopExit(p) - 1
    /\ ~BranchTaken
    /\ LastIns.op \notin {"Return", "Call", "CallIndirect", "RJump"}

\* C33: a branch to the label of a loop continues at the Loop instruction,
\* and the Loop instruction executed again pushes its label at the depth
\* and with the stack_offset of the label the branch removed, so that
\* neither stack grows from one iteration to the next; a loop body that
\* ends without branching continues with the instruction after the loop.
C33_LoopReentry ==
    /\ LoopBranch =>
          /\ phase = "running"
          /\ pc = JumpTarget.pc
          /\ At(instrs, pc).op = "Loop"
          /\ Reentered.kind = "next"
          /\ labels_len(Reentered.stack) =
                labels_len(BranchFrom.stack) - BranchLabel
          /\ th_label(Reentered.stack, 0).stack_offset =
                JumpTarget.stack_offset
    /\ \A p \in 0..(Len(instrs) - 1) : FellOut(p) => pc = LoopExit(p)


\* the instances whose funcaddrs hold the function address addr
Holders(addr) ==
    {k \in 0..(Len(instances) - 1) :
        \E j \in DOMAIN At(instances, k).funcaddrs :
            At(instances, k).funcaddrs[j] = addr}

\* C34: after Runtime::new every Inner function of the Store names an
\* existing instance, and that instance is the one of the module defining
\* the function: its funcaddrs holds the function's address, and it is the
\* first instance that does (the instances that import the function come
\* after it), with nested imports and several imported modules.
C34_InstanceOfFunc ==
    scen # "none" =>
    \A a \in DOMAIN store.funcs :
        store.funcs[a].kind = "InnerFunc" =>
            /\ store.funcs[a].instance_addr >= 0
            /\ store.funcs[a].instance_addr < Len(instances)
            /\ store.funcs[a].instance_addr \in Holders(a - 1)
            /\ \A k \in Holders(a - 1) : store.funcs[a].instance_addr <= k

\* a runtime of five instances: an imported module that imports itself,
\* and a function held by its defining instance and by the importing one
C34_Witness ==
    /\ scen = "link"
    /\ Len(instances) = 5
    /\ root = 4
    /\ \E a \in DOMAIN store.funcs :
          /\ store.funcs[a].kind = "InnerFunc"
          /\ Cardinality(Holders(a - 1)) = 2
          /\ store.funcs[a].instance_addr = 3


\* the function the k-th import of the root module was resolved to
Imported(k) == At(store.funcs, At(instances, root).funcaddrs[k])

\* C39: the functions a module imports from one module other than the
\* environment are functions of one single instance of that module, and so
\* share its globals.
C39_OneInstancePerModule ==
    scen # "none" =>
    \A j, k \in DOMAIN RootModule(scen).imports :
        ( /\ RootModule(scen).imports[j].module # "env"
          /\ RootModule(scen).imports[j].module =
                RootModule(scen).imports[k].module )
        => /\ Imported(j).instance_addr = Imported(k).instance_addr
           /\ At(instances, Imported(j).instance_addr).globaladdrs =
                 At(instances, Imported(k).instance_addr).globaladdrs


\* the last call on optvec was name and returned
Returned(name) == call.name = name /\ ~call.panic
\* every address push has returned and no remove or pop has taken since
\* still indexes the value pushed there
HeldValues ==
    \A a \in DOMAIN held :
        OptVec_has(optvec, a) /\ At(optvec.inner, a).v = held[a]

C36_Remove ==
    /\ call.name = "remove" =>
           /\ call.panic <=> call.arg >= Len(call.before.inner)
           /\ (~call.panic /\ OptVec_has(call.before, call.arg)) =>
                  /\ call.ret = Some(At(call.before.inner, call.arg).v)
                  /\ Len(optvec.inner) = Len(call.before.inner)
                  /\ \A a \in 0..(Len(optvec.inner) - 1) :
                         IF a = call.arg
                         THEN ~At(optvec.inner, a).some
                         ELSE At(optvec.inner, a) = At(call.before.inner, a)
                  /\ optvec.free = Append(call.before.free, call.arg)
           /\ (~call.panic /\ ~OptVec_has(call.before, call.arg)) =>
                  /\ call.ret = None
                  /\ optvec = call.before
    /\ \A a \in Range(optvec.free) : Occurrences(optvec.free, a) = 1

\* a slot that was removed before is removed again
C36_Witness ==
    /\ Returned("remove")
    /\ ~OptVec_has(call.before, call.arg)
    /\ Occurrences(optvec.free, call.arg) = 1

\* C37: after any pushes, pops and removes the free list holds exactly the
\* indices of the empty slots of inner, each once, every one of them smaller
\* than the length of inner, and no push panics.
C37_FreeList ==
    /\ \A a \in Range(optvec.free) : FreedOnce(optvec, a)
    /\ \A a \in 0..(Len(optvec.inner) - 1) :
           ~At(optvec.inner, a).some => a \in Range(optvec.free)
    /\ call.name = "push" => ~call.panic


\* the runtimes of the shared Store free_runtime has not consumed
Live == {rt \in DOMAIN runtimes : runtimes[rt].live}
\* the addresses of the slot vector kind the runtime rt records
AddrsOf(rt, kind) ==
    LET inst == runtimes[rt].instances[1]
    IN  CASE kind = "datas" -> Range(inst.dataaddrs)
          [] kind = "elems" -> Range(inst.elemaddrs)
          [] kind = "globals" -> Range(inst.globaladdrs)
          [] kind = "tables" -> Range(inst.tableaddrs)
          [] OTHER -> IF inst.memaddr >= 0 THEN {inst.memaddr} ELSE {}
Kinds == {"datas", "elems", "globals", "tables", "mems"}

\* C38: on a shared Store, after any instantiations, DataDrop steps and
\* free_runtime calls, no two live instances record the same data, elem,
\* global, table or memory address (none of them is imported here), and
\* free_runtime of one runtime empties no occupied slot that another live
\* runtime records.
C38_NoReuse ==
    /\ \A r1, r2 \in Live : \A kind \in Kinds :
           r1 # r2 => AddrsOf(r1, kind) \cap AddrsOf(r2, kind) = {}
    /\ event.name = "free" =>
           \A rt \in Live : \A kind \in Kinds : \A a \in AddrsOf(rt, kind) :
               OptVec_has(event.before[kind], a) =>
                   OptVec_has(shared[kind], a)


\* C40: Runtime::new returns for every importer, an Instance (the runtime
\* with its root instance) or a RuntimeError, also when the imports form a
\* cycle or a module imports from itself.
C40_Terminates == <>(linker.status \in {"ok", "err"})

====
